---- MODULE Spec2Model ----
(***************************************************************************)
(* A model of the dispatch core of vigo: the route tree (router.go), the   *)
(* per-request pipeline of X (x.go) and the argument binder (xparser.go).  *)
(* Strings are sequences of one-character strings, so that the slicing the *)
(* code does on paths ("/" handling, fragment[1:]) is modelled as written. *)
(***************************************************************************)
EXTENDS Naturals, Integers, Sequences, FiniteSets, TLC

VARIABLES
    routes,     \* the heap of route objects: routes[id] is one *route, id 1 is the root
    setlog,     \* the Set calls made so far, in order
    crashed,    \* a registration panicked (nil dereference in get_subrouter)
    req,        \* the request last handed to ServeHTTP
    res,        \* what route.match returned for it, and the parameters it bound
    xchain,     \* the chain the request of the pipeline was matched to
    xfcs,       \* X.fcs
    xfid,       \* X.fid, the cursor
    stack,      \* the call stack of the request: frames of Next, handlers and handleErr
    panicking,  \* the value of a panic that is unwinding the stack
    calls,      \* every invocation of a chain entry so far, in order
    scans,      \* every run of handleErr so far
    stopped,    \* some handler of the request has called Stop
    xstate,     \* "running", "returned" (Next returned), "escaped" (a panic left Next),
                \* then "released"
    ptarget,    \* the fields of the struct handed to X.Parse, in declaration order
    preq,       \* the request X.Parse reads: Content-Type, body, query, header
    pvals,      \* the value of each field of the target
    pidx,       \* the field X.Parse is at (0: before the body is looked at)
    presult,    \* what X.Parse returned
    now,        \* the clock time.Now() reads, in ticks
    config,     \* the configuration the limiter or a cache was built with
    clients,    \* AdvancedRequestLimiter.clients: key -> ClientRecord
    limlog,     \* every call of Limit so far
    cache,      \* CacheMiddleware.cache: URL -> cacheItem; Cache.data: key -> CacheItem
    inflight,   \* the calls of CacheMiddleware.Handler, or of the methods of Cache, in
                \* progress, one per goroutine
    cachelog,   \* every call of the wrapped handler, store and return of Handler so far;
                \* every call of a method of Cache so far
    hreq,       \* the request the CORS middleware reads: method, Host, TLS, headers
    header,     \* the Access-Control headers set on the response
    dfield,     \* the field one decoding is about: its kind, pointer flag and tags
    dinput,     \* the raw text of that decoding: a default tag or a supplied value
    doutcome,   \* what each way of binding dinput to dfield gave
    xs,         \* the contexts xPool has made: xs[id] is one *X
    xpool,      \* the contexts xPool holds
    gos         \* the goroutines of the transport layer, one call of ServeHTTP each

varsRoute == <<routes, setlog, crashed, req, res>>
varsX == <<xchain, xfcs, xfid, stack, panicking, calls, scans, stopped, xstate>>
varsP == <<ptarget, preq, pvals, pidx, presult>>
varsD == <<dfield, dinput, doutcome>>
varsG == <<xs, xpool, gos>>
varsE == <<varsG>>
varsH == <<hreq, header, varsD, varsE>>
varsM == <<now, config, clients, limlog, cache, inflight, cachelog, varsH>>
vars == <<varsRoute, varsX, varsP, varsM>>

\* ------------------------------------------------------------ bounds
MaxSets == 3
MaxDepth == 2
MaxSegs == 2
MaxChain == 3
MaxFields == 2
MaxOps == 3
MaxCalls == 5
MaxReqs == 2
MaxTime == 4
MaxLimits == 4
MaxHandles == 3
MaxThread == 4
\* the width in bits of int and uint in the model
WordBits == 28

\* ------------------------------------------------------------ strings
Range(f) == {f[i] : i \in DOMAIN f}

RECURSIVE Flatten(_)
Flatten(ss) == IF ss = <<>> THEN <<>> ELSE Head(ss) \o Flatten(Tail(ss))

\* s[from:] of Go for a 0-based from
From(s, from) == SubSeq(s, from + 1, Len(s))

\* the sequences over S of length lo..hi
SeqsOf(S, lo, hi) == UNION {[1..n -> S] : n \in lo..hi}

\* ------------------------------------------------------------ handlers
CallShapes ==
    {"FuncX2None", "FuncX2Any", "FuncX2Err", "FuncX2AnyErr",
     "FuncAny2None", "FuncAny2Any", "FuncAny2Err", "FuncAny2AnyErr",
     "FuncHttp2None", "FuncHttp2Any", "FuncHttp2Err", "FuncHttp2AnyErr",
     "FuncErr", "FuncSkipBefore"}

\* the handler function number id, of call shape k
Fn(k, id) == [k |-> k, id |-> id]

\* ------------------------------------------------------------ route
nil == 0

EmptyMap == <<>>

NewRouter ==
    [fragment |-> <<>>, funcBefore |-> <<>>, funcAfter |-> <<>>,
     handlers |-> EmptyMap, handlersCache |-> EmptyMap,
     parent |-> nil, subRouters |-> EmptyMap, colon |-> nil, wildcard |-> nil]

\* &route{fragment: ..., parent: last}
NewRoute(fragment, parent) ==
    [NewRouter EXCEPT !.fragment = fragment, !.parent = parent]

\* len(r.handlers[m]): a missing key reads as the nil slice
HandlersLen(r, m) == IF m \in DOMAIN r.handlers THEN Len(r.handlers[m]) ELSE 0

\* r.handlersCache[m]
CacheOf(r, m) == IF m \in DOMAIN r.handlersCache THEN r.handlersCache[m] ELSE <<>>

\* fragment[1:], the parameter name of a ":name" or "*name" fragment
ParamName(fragment) == Tail(fragment)

Children(rt, r) ==
    (Range(rt[r].subRouters) \cup {rt[r].colon, rt[r].wildcard}) \ {nil}

RECURSIVE Subtree(_, _)
Subtree(rt, r) == {r} \cup UNION {Subtree(rt, c) : c \in Children(rt, r)}

\* ------------------------------------------------------------ X.setParam
ParamKeys(ps) == {ps[i][1] : i \in DOMAIN ps}

\* mutant of setParam: the entry of an existing key takes the new value
setParamUpsert(ps, k, v) ==
    IF k \in ParamKeys(ps)
    THEN [i \in DOMAIN ps |-> IF ps[i][1] = k THEN <<k, v>> ELSE ps[i]]
    ELSE Append(ps, <<k, v>>)

\* the range loop assigns to a copy of the entry, so an existing key keeps its value
setParam(ps, k, v) ==
    IF k \in ParamKeys(ps) THEN ps ELSE Append(ps, <<k, v>>)

\* Params.Try
Try(ps, key) ==
    IF key \in ParamKeys(ps)
    THEN LET i == CHOOSE i \in DOMAIN ps :
                    ps[i][1] = key /\ \A j \in 1..(i - 1) : ps[j][1] # key
         IN [v |-> ps[i][2], ok |-> TRUE]
    ELSE [v |-> <<>>, ok |-> FALSE]

\* ------------------------------------------------------------ route.match
NoMatch(ps) == [node |-> nil, fcs |-> <<>>, ps |-> ps]

\* the loop of lines 174-181: the index of the first '/', or len(u)
RECURSIVE IndexSlash(_, _)
IndexSlash(u, i) ==
    IF i >= Len(u) THEN Len(u)
    ELSE IF u[i + 1] = "/" THEN i
    ELSE IndexSlash(u, i + 1)

\* u[:idx]
FirstSeg(u) == SubSeq(u, 1, IndexSlash(u, 0))

\* nexts: u[idx:] with one leading '/' removed
Nexts(u) ==
    LET n0 == From(u, IndexSlash(u, 0))
    IN IF Len(n0) > 0 /\ n0[1] = "/" THEN Tail(n0) ELSE n0

\* mutant of MethodChain: "ANY" is looked up before the exact method
MethodChainAnyFirst(r, m) ==
    IF HandlersLen(r, "ANY") > 0 THEN [ok |-> TRUE, fcs |-> CacheOf(r, "ANY")]
    ELSE IF HandlersLen(r, m) > 0 THEN [ok |-> TRUE, fcs |-> CacheOf(r, m)]
    ELSE [ok |-> FALSE, fcs |-> <<>>]

\* the method lookup on one node: the exact method, then "ANY"
MethodChain(r, m) ==
    IF HandlersLen(r, m) > 0 THEN [ok |-> TRUE, fcs |-> CacheOf(r, m)]
    ELSE IF HandlersLen(r, "ANY") > 0 THEN [ok |-> TRUE, fcs |-> CacheOf(r, "ANY")]
    ELSE [ok |-> FALSE, fcs |-> <<>>]

\* mutant of matchWildcard: only the first segment of the rest is bound
matchWildcardOneSeg(rt, r, v, m, ps) ==
    LET w == rt[r].wildcard
        mc == MethodChain(rt[w], m)
    IN IF w # nil /\ mc.ok
       THEN [node |-> w, fcs |-> mc.fcs,
             ps |-> setParam(ps, ParamName(rt[w].fragment), SubSeq(v, 1, IndexSlash(v, 0)))]
       ELSE NoMatch(ps)

\* mutant of matchWildcard: the binding of the named child tried before is kept
matchWildcardAfterColon(rt, r, v, m, ps) ==
    LET w == rt[r].wildcard
        mc == MethodChain(rt[w], m)
        tried == IF rt[r].colon # nil /\ v # <<>>
                 THEN setParam(ps, ParamName(rt[rt[r].colon].fragment), FirstSeg(v))
                 ELSE ps
    IN IF w # nil /\ mc.ok
       THEN [node |-> w, fcs |-> mc.fcs,
             ps |-> setParam(tried, ParamName(rt[w].fragment), v)]
       ELSE NoMatch(tried)

\* lines 163-171 and 199-207: the wildcard child takes the request with value v
matchWildcard(rt, r, v, m, ps) ==
    LET w == rt[r].wildcard
        mc == MethodChain(rt[w], m)
    IN IF w # nil /\ mc.ok
       THEN [node |-> w, fcs |-> mc.fcs,
             ps |-> setParam(ps, ParamName(rt[w].fragment), v)]
       ELSE NoMatch(ps)

\* mutant of bindColon: the fragment is used as the key without dropping its ':'
bindColonWholeFragment(rt, r, col, seg) ==
    [col EXCEPT !.ps = setParam(col.ps, rt[rt[r].colon].fragment, seg)]

\* lines 192-197: the named child matched the rest, so it binds this segment
bindColon(rt, r, col, seg) ==
    [col EXCEPT !.ps = setParam(col.ps, ParamName(rt[rt[r].colon].fragment), seg)]

\* mutant of Precedence: the named child is asked before the literal child
PrecedenceColonFirst(lit, col, wc) ==
    IF col.node # nil THEN col
    ELSE IF lit.node # nil THEN lit
    ELSE wc

\* lines 186-208: the literal child first, then the named child, then the wildcard
Precedence(lit, col, wc) ==
    IF lit.node # nil THEN lit
    ELSE IF col.node # nil THEN col
    ELSE wc

RECURSIVE match(_, _, _, _, _)
match(rt, r, u, m, ps) ==
    IF u = <<"/">> \/ u = <<>>
    THEN LET mc == MethodChain(rt[r], m)
         IN IF mc.ok THEN [node |-> r, fcs |-> mc.fcs, ps |-> ps]
            ELSE matchWildcard(rt, r, <<>>, m, ps)
    ELSE LET seg == FirstSeg(u)
             nexts == Nexts(u)
             lit == IF seg \in DOMAIN rt[r].subRouters
                    THEN match(rt, rt[r].subRouters[seg], nexts, m, ps)
                    ELSE NoMatch(ps)
             col0 == IF rt[r].colon # nil
                     THEN match(rt, rt[r].colon, nexts, m, ps)
                     ELSE NoMatch(ps)
             col == IF col0.node # nil THEN bindColon(rt, r, col0, seg) ELSE col0
             wc == matchWildcard(rt, r, u, m, ps)
         IN Precedence(lit, col, wc)

\* ------------------------------------------------------------ route.syncCache
\* before: the funcBefore of the root, then of each ancestor down to r
RECURSIVE BeforeOf(_, _)
BeforeOf(rt, r) ==
    IF r = nil THEN <<>> ELSE BeforeOf(rt, rt[r].parent) \o rt[r].funcBefore

\* mutant of AfterOf: the funcAfter of the root first, down to r
RECURSIVE AfterOfRootFirst(_, _)
AfterOfRootFirst(rt, r) ==
    IF r = nil THEN <<>> ELSE AfterOfRootFirst(rt, rt[r].parent) \o rt[r].funcAfter

\* after: the funcAfter of r, then of its parent, up to the root
RECURSIVE AfterOf(_, _)
AfterOf(rt, r) ==
    IF r = nil THEN <<>> ELSE rt[r].funcAfter \o AfterOf(rt, rt[r].parent)

\* mutant of LastSkip: the index of the first FuncSkipBefore
FirstSkip(chain) ==
    LET S == {i \in DOMAIN chain : chain[i].k = "FuncSkipBefore"}
    IN IF S = {} THEN 0 ELSE CHOOSE i \in S : \A j \in S : i <= j

\* the index of the last FuncSkipBefore of a chain, 0 when it has none
LastSkip(chain) ==
    LET S == {i \in DOMAIN chain : chain[i].k = "FuncSkipBefore"}
    IN IF S = {} THEN 0 ELSE CHOOSE i \in S : \A j \in S : j <= i

\* lines 449-461 for one method
ComposeChain(rt, r, k) ==
    LET full == BeforeOf(rt, r) \o rt[r].handlers[k] \o AfterOf(rt, r)
    IN From(full, LastSkip(full))

\* mutant of syncCache: the nodes below r keep the cache they have
syncCacheSelf(rt, r) ==
    [rt EXCEPT ![r].handlersCache = [k \in DOMAIN rt[r].handlers |-> ComposeChain(rt, r, k)]]

\* r and every node below it get their cache rebuilt from the current tree
syncCache(rt, r) ==
    LET S == Subtree(rt, r)
        synced == [n \in DOMAIN rt |->
                     IF n \in S
                     THEN [rt[n] EXCEPT !.handlersCache =
                              [k \in DOMAIN rt[n].handlers |-> ComposeChain(rt, n, k)]]
                     ELSE rt[n]]
    IN SubSeq(synced, 1, Len(rt))

\* ------------------------------------------------------------ route.get_subrouter
GsResult(rt, node, panic) == [rt |-> rt, node |-> node, panic |-> panic]

\* the loop of lines 242-283 from character i (0-based) on; startIdx is where the
\* fragment being read began and last the route reached so far
\* mutant of colonChild: a named fragment with another name gets a child of its own,
\* which takes the place of the first one
colonChildPerName(rt, last, fragment) ==
    IF rt[last].colon # nil /\ rt[rt[last].colon].fragment = fragment
    THEN [rt |-> rt, node |-> rt[last].colon]
    ELSE [rt |-> Append([rt EXCEPT ![last].colon = Len(rt) + 1], NewRoute(fragment, last)),
          node |-> Len(rt) + 1]

\* mutant of colonChild: no named child is made beside a wildcard child
colonChildExclusive(rt, last, fragment) ==
    IF rt[last].colon # nil
    THEN [rt |-> rt, node |-> rt[last].colon]
    ELSE IF rt[last].wildcard # nil
    THEN [rt |-> rt, node |-> rt[last].wildcard]
    ELSE [rt |-> Append([rt EXCEPT ![last].colon = Len(rt) + 1], NewRoute(fragment, last)),
          node |-> Len(rt) + 1]

\* lines 260-270: the single named child of last, made when there is none yet; a
\* fragment with another name only logs "variable path conflict"
colonChild(rt, last, fragment) ==
    IF rt[last].colon # nil
    THEN [rt |-> rt, node |-> rt[last].colon]
    ELSE [rt |-> Append([rt EXCEPT ![last].colon = Len(rt) + 1], NewRoute(fragment, last)),
          node |-> Len(rt) + 1]

RECURSIVE gsLoop(_, _, _, _, _)
gsLoop(rt, last, url, startIdx, i) ==
    IF i >= Len(url) THEN GsResult(rt, last, FALSE)
    ELSE IF url[i + 1] # "/" THEN gsLoop(rt, last, url, startIdx, i + 1)
    ELSE
      LET fragment == SubSeq(url, startIdx + 1, i)
          id == Len(rt) + 1
          next == NewRoute(fragment, last)
      IN IF fragment = <<>>
         THEN \* logv.Assert(false, "url path can not has //")
              GsResult(rt, nil, TRUE)
         ELSE IF fragment[1] = "*"
         THEN IF rt[last].wildcard # nil
              THEN IF rt[rt[last].wildcard].fragment # fragment /\ rt[last].colon = nil
                   THEN \* the warning calls last.colon.String() on a nil *route
                        GsResult(rt, nil, TRUE)
                   ELSE GsResult(rt, rt[last].wildcard, FALSE)
              ELSE GsResult(Append([rt EXCEPT ![last].wildcard = id], next), id, FALSE)
         ELSE IF fragment[1] = ":"
         THEN LET c == colonChild(rt, last, fragment)
              IN gsLoop(c.rt, c.node, url, i + 1, i + 1)
         ELSE IF fragment \in DOMAIN rt[last].subRouters
              THEN gsLoop(rt, rt[last].subRouters[fragment], url, i + 1, i + 1)
              ELSE gsLoop(Append([rt EXCEPT ![last].subRouters = (fragment :> id) @@ @],
                                 next),
                          id, url, i + 1, i + 1)

get_subrouter(rt, r, url) ==
    IF url = <<>> \/ url = <<"/">> THEN GsResult(rt, r, FALSE)
    ELSE LET u1 == IF url[1] = "/" THEN Tail(url) ELSE url
             u2 == IF u1[Len(u1)] # "/" THEN Append(u1, "/") ELSE u1
         IN gsLoop(rt, r, u2, 0, 0)

\* ------------------------------------------------------------ route.Set
allowedMethods ==
    {"GET", "HEAD", "POST", "PUT", "PATCH", "DELETE", "CONNECT", "OPTIONS", "TRACE",
     "PROPFIND", "ANY"}

\* mutant of filterHandlers: every argument stays in the chain
filterHandlersAll(handlers) == handlers

\* the arguments of Set that stay in the chain (lines 329-352)
filterHandlers(handlers) == SelectSeq(handlers, LAMBDA fc : fc.k \in CallShapes)

\* an argument that is no callable, no description and no struct: Fatal
Unsupported(handlers) ==
    \E i \in DOMAIN handlers :
        handlers[i].k \notin CallShapes \cup {"FuncDescription", "struct"}

\* mutant of putHandlers: a chain already there is extended, not replaced
putHandlersAppend(old, method, fcs) ==
    (method :> (IF method \in DOMAIN old THEN old[method] ELSE <<>>) \o fcs) @@ old

\* lines 353-359: the chain of the method is replaced by the new one
putHandlers(old, method, fcs) == (method :> fcs) @@ old

Set(rt, r, prefix, method, handlers) ==
    LET g == IF Len(rt[r].fragment) > 0 /\ rt[r].fragment[1] = "*"
             THEN GsResult(rt, r, FALSE)
             ELSE get_subrouter(rt, r, prefix)
        tmp == g.node
    IN IF g.panic \/ Unsupported(handlers) THEN GsResult(g.rt, nil, TRUE)
       ELSE GsResult(
              syncCache([g.rt EXCEPT ![tmp].handlers =
                            putHandlers(@, method, filterHandlers(handlers))], tmp),
              tmp, FALSE)

\* ------------------------------------------------------------ inputs
user == <<"u">>
Frags == {user, <<":", "i">>, <<":", "j">>, <<"*", "r">>}

\* "/f1/f2/..." for the fragments fs
Url(fs) == Flatten([i \in DOMAIN fs |-> <<"/">> \o fs[i]])

Patterns == SeqsOf(Frags, 1, MaxDepth)

SetMethods == {"GET", "ANY"}
ReqMethods == {"GET", "POST"}

\* what the k-th Set call registers: functions of its own, some with a description
ArgLists(k) == {<<Fn("FuncDescription", k), Fn("FuncX2AnyErr", k)>>}

SegTexts == {<<>>, user, <<"v">>}

\* the request paths: "/" followed by up to MaxSegs segments joined by "/"
Join(segs) == IF segs = <<>> THEN <<>>
              ELSE Head(segs) \o Flatten([i \in 1..(Len(segs) - 1) |-> <<"/">> \o segs[i + 1]])
Paths == {<<"/">> \o Join(segs) : segs \in SeqsOf(SegTexts, 0, MaxSegs)}

\* no request is in the pipeline
IdleX ==
    /\ xchain = <<>> /\ xfcs = <<>> /\ xfid = 0 /\ stack = <<>>
    /\ panicking = <<"none", 0>> /\ calls = <<>> /\ scans = <<>>
    /\ stopped = FALSE /\ xstate = "idle"

\* X.Parse has not been called
IdleP ==
    /\ ptarget = <<>> /\ preq = <<>> /\ pvals = <<>> /\ pidx = 0 /\ presult = <<>>

\* no request has reached a CORS middleware
IdleD == dfield = <<>> /\ dinput = <<>> /\ doutcome = <<>>
IdleG == xs = <<>> /\ xpool = {} /\ gos = <<>>
IdleE == IdleG
IdleH == hreq = <<>> /\ header = <<>> /\ IdleD /\ IdleE

\* no limiter and no cache middleware has been built
IdleM ==
    /\ now = 0 /\ config = <<>> /\ clients = <<>> /\ limlog = <<>>
    /\ cache = <<>> /\ inflight = <<>> /\ cachelog = <<>>
    /\ IdleH

\* ------------------------------------------------------------ the router's actions
NoReq == [path |-> <<>>, m |-> "", served |-> FALSE]
NoRes == NoMatch(<<>>)

InitRoute ==
    /\ routes = <<NewRouter>>
    /\ setlog = <<>>
    /\ crashed = FALSE
    /\ req = NoReq
    /\ res = NoRes
    /\ IdleX
    /\ IdleP
    /\ IdleM

\* one registration on the root router, before or between requests
DoSet ==
    /\ ~crashed /\ ~req.served /\ Len(setlog) < MaxSets
    /\ \E p \in Patterns, m \in SetMethods, hs \in ArgLists(Len(setlog) + 1) :
         LET s == Set(routes, 1, Url(p), m, hs)
         IN /\ routes' = s.rt
            /\ crashed' = s.panic
            /\ setlog' = Append(setlog, [url |-> Url(p), pattern |-> p, method |-> m,
                                         handlers |-> hs, node |-> s.node])
    /\ UNCHANGED <<req, res, varsX, varsP, varsM>>

\* lines 212-219: a fresh context, then match on the path without its leading '/'
ServeHTTP ==
    /\ ~crashed /\ ~req.served
    /\ \E path \in Paths, m \in ReqMethods :
         /\ req' = [path |-> path, m |-> m, served |-> TRUE]
         /\ res' = match(routes, 1, From(path, 1), m, <<>>)
    /\ UNCHANGED <<routes, setlog, crashed, varsX, varsP, varsM>>

\* release(x): the request is over and the context is reset
Release ==
    /\ req.served
    /\ req' = NoReq
    /\ res' = NoRes
    /\ UNCHANGED <<routes, setlog, crashed, varsX, varsP, varsM>>

NextRoute == DoSet \/ ServeHTTP \/ Release

SpecRoute == InitRoute /\ [][NextRoute]_vars

\* ------------------------------------------------------------ reading the tree
Root == 1

\* the routes from the child of the root down to n
RECURSIVE PathTo(_, _)
PathTo(rt, n) ==
    IF n = nil \/ rt[n].parent = nil THEN <<>>
    ELSE Append(PathTo(rt, rt[n].parent), n)

IsNamed(fragment) == Len(fragment) > 0 /\ fragment[1] = ":"
IsWildcard(fragment) == Len(fragment) > 0 /\ fragment[1] = "*"

\* the parameter names of the named and wildcard routes among ns
ParamNamesOf(rt, ns) ==
    {ParamName(rt[n].fragment) :
        n \in {x \in ns : IsNamed(rt[x].fragment) \/ IsWildcard(rt[x].fragment)}}

\* the path the router walks: the request path without its leading '/'
Walked == From(req.path, 1)

\* u with its first n segments, and the '/' after each, dropped
RECURSIVE DropSegs(_, _)
DropSegs(u, n) ==
    IF n = 0 THEN u ELSE DropSegs(From(u, IndexSlash(u, 0) + 1), n - 1)

\* the chain the last Set call on (node, m) registered, from the log
RegCalls(node, m) ==
    {k \in DOMAIN setlog : setlog[k].node = node /\ setlog[k].method = m}
Registered(node, m) == RegCalls(node, m) # {}
RegChain(node, m) ==
    LET k == CHOOSE k \in RegCalls(node, m) : \A j \in RegCalls(node, m) : j <= k
    IN filterHandlers(setlog[k].handlers)

\* ------------------------------------------------------------ C1
C1_Pre ==
    /\ req.served
    /\ user \in DOMAIN routes[Root].subRouters
    /\ routes[Root].colon # nil
    /\ routes[Root].wildcard # nil
    /\ FirstSeg(Walked) = user

C1_Lit == routes[Root].subRouters[user]
C1_LitMatch == match(routes, C1_Lit, Nexts(Walked), req.m, <<>>)
C1_ColMatch == match(routes, routes[Root].colon, Nexts(Walked), req.m, <<>>)

\* C1 as stated: where the root has a literal child "user", a named child and a
\* wildcard child, every matched request whose first segment is "user" is resolved
\* through the literal child, whatever its method and the rest of its path.
C1_LiteralAlways ==
    (C1_Pre /\ res.node # nil) => C1_Lit \in Range(PathTo(routes, res.node))

\* C1 amended: such a request is resolved through the literal child, binding neither
\* the named nor the wildcard parameter of that position, whenever the subtree of the
\* literal child matches the rest of the path for the method; when it does not, the
\* request falls back to the named child and then to the wildcard child.
C1_LiteralWhenSubtreeMatches ==
    /\ (C1_Pre /\ C1_LitMatch.node # nil) =>
          /\ res = C1_LitMatch
          /\ C1_Lit \in Range(PathTo(routes, res.node))
          /\ routes[Root].colon \notin Range(PathTo(routes, res.node))
          /\ routes[Root].wildcard \notin Range(PathTo(routes, res.node))
          /\ ParamKeys(res.ps) \subseteq
                ParamNamesOf(routes, Range(PathTo(routes, res.node)) \ {C1_Lit})
    /\ (C1_Pre /\ C1_LitMatch.node = nil /\ res.node # nil) =>
          \/ routes[Root].colon \in Range(PathTo(routes, res.node))
          \/ res.node = routes[Root].wildcard

\* a request for "user" that the literal child takes although the named child and the
\* wildcard child could take it too
C1_Witness ==
    /\ C1_Pre
    /\ C1_LitMatch.node # nil
    /\ C1_ColMatch.node # nil
    /\ MethodChain(routes[routes[Root].wildcard], req.m).ok
    /\ C1_Lit \in Range(PathTo(routes, res.node))

\* ------------------------------------------------------------ C3
C3_Pre == req.served /\ res.node # nil /\ IsWildcard(routes[res.node].fragment)

\* what the walk has not consumed when it stands on the parent of the resolved route
C3_Rest == DropSegs(Walked, Len(PathTo(routes, res.node)) - 1)

C3_Bound == Try(res.ps, ParamName(routes[res.node].fragment))

\* C3 as stated: a request resolved to a wildcard child binds the wildcard parameter
\* to the whole part of the path not consumed yet, slashes included.
C3_WholeRest == C3_Pre => C3_Bound = [v |-> C3_Rest, ok |-> TRUE]

\* C3 amended: the wildcard parameter is bound to the whole part of the path not
\* consumed yet, except that a rest of exactly "/" is bound as the empty string.
C3_WholeRestButSlash ==
    C3_Pre =>
       /\ C3_Bound = [v |-> IF C3_Rest = <<"/">> THEN <<>> ELSE C3_Rest, ok |-> TRUE]
       /\ Children(routes, res.node) = {}

\* a wildcard bound to a rest of two segments, its slash included
C3_Witness ==
    /\ C3_Pre
    /\ Len(C3_Rest) >= 3
    /\ "/" \in Range(C3_Rest)
    /\ C3_Bound.v = C3_Rest

\* ------------------------------------------------------------ C9
\* C9: the chain of a matched request is the one registered on the resolved route for
\* the request's method when there is one, and otherwise the one registered for
\* "ANY"; a route with neither is never the result.
C9_MethodLookup ==
    (req.served /\ res.node # nil) =>
       IF Registered(res.node, req.m)
       THEN res.fcs = RegChain(res.node, req.m)
       ELSE Registered(res.node, "ANY") /\ res.fcs = RegChain(res.node, "ANY")

\* a request resolved to a route that has a chain for its method and one for "ANY"
C9_Witness ==
    /\ req.served /\ res.node # nil
    /\ Registered(res.node, req.m)
    /\ Registered(res.node, "ANY")
    /\ res.fcs # RegChain(res.node, "ANY")

\* ------------------------------------------------------------ C2
\* a pattern whose wildcard, if it has one, is its last fragment
Terminal(p) == \A i \in 1..(Len(p) - 1) : ~IsWildcard(p[i])

\* u read as pattern p with a text put for each named fragment and a tail for the
\* wildcard: whether it is one, and the (name, text) pairs it then stands for
RECURSIVE Inst(_, _)
Inst(p, u) ==
    LET f == Head(p)
        idx == IndexSlash(u, 0)
        seg == SubSeq(u, 1, idx)
        segOk == IsNamed(f) \/ seg = f
        here == IF IsNamed(f)
                THEN <<[name |-> ParamName(f), text |-> seg, wild |-> FALSE]>>
                ELSE <<>>
    IN IF IsWildcard(f)
       THEN [ok |-> TRUE, binds |-> <<[name |-> ParamName(f), text |-> u, wild |-> TRUE]>>]
       ELSE IF Len(p) = 1 THEN [ok |-> segOk /\ idx = Len(u), binds |-> here]
       ELSE IF idx = Len(u) THEN [ok |-> FALSE, binds |-> <<>>]
       ELSE LET r == Inst(Tail(p), From(u, idx + 1))
            IN [ok |-> segOk /\ r.ok, binds |-> here \o r.binds]

\* no sibling that the walk asks first takes the request away from the routes ns
RECURSIVE NoPrecedence(_, _, _, _)
NoPrecedence(r, ns, u, m) ==
    IF ns = <<>> THEN TRUE
    ELSE LET n == Head(ns)
             seg == FirstSeg(u)
             litFree == seg \in DOMAIN routes[r].subRouters =>
                          match(routes, routes[r].subRouters[seg], Nexts(u), m, <<>>).node = nil
             colFree == routes[r].colon # nil =>
                          match(routes, routes[r].colon, Nexts(u), m, <<>>).node = nil
         IN IF IsWildcard(routes[n].fragment)
            THEN IF u = <<>> \/ u = <<"/">> THEN ~MethodChain(routes[r], m).ok
                 ELSE litFree /\ colFree
            ELSE IF IsNamed(routes[n].fragment)
            THEN litFree /\ NoPrecedence(n, Tail(ns), Nexts(u), m)
            ELSE NoPrecedence(n, Tail(ns), Nexts(u), m)

\* the request is call k's pattern with texts put in, asked with call k's method
C2_Pre(k) ==
    /\ req.served
    /\ setlog[k].node # nil
    /\ Terminal(setlog[k].pattern)
    /\ setlog[k].method = req.m
    /\ Inst(setlog[k].pattern, Walked).ok
    /\ NoPrecedence(Root, PathTo(routes, setlog[k].node), Walked, req.m)

C2_Post(k) ==
    LET binds == Inst(setlog[k].pattern, Walked).binds
    IN /\ res.node = setlog[k].node
       /\ res.fcs = RegChain(setlog[k].node, req.m)
       /\ \A i \in DOMAIN binds :
             Try(res.ps, binds[i].name) = [v |-> binds[i].text, ok |-> TRUE]

\* the names of the pattern are pairwise distinct and are the names the tree holds
\* at these positions, every text put for a named fragment is non-empty and the
\* tail put for the wildcard is not "/"
C2_Plain(k) ==
    LET p == setlog[k].pattern
        ns == PathTo(routes, setlog[k].node)
        binds == Inst(p, Walked).binds
    IN /\ \A i \in DOMAIN ns : routes[ns[i]].fragment = p[i]
       /\ \A i, j \in DOMAIN binds : i # j => binds[i].name # binds[j].name
       /\ \A i \in DOMAIN binds :
             IF binds[i].wild THEN binds[i].text # <<"/">> ELSE binds[i].text # <<>>

\* C2 as stated: a request made from a registered pattern by putting a text for each
\* named fragment and a tail for the wildcard, with the pattern's method and no other
\* route taking precedence, gets the pattern's chain, every named parameter bound to
\* its text and the wildcard parameter to the tail.
C2_RoundTrip == \A k \in DOMAIN setlog : C2_Pre(k) => C2_Post(k)

\* C2 amended: the same, for patterns whose parameter names are pairwise distinct and
\* not in conflict with a name registered earlier at the same position, texts that
\* are non-empty and a tail other than "/".
C2_RoundTripPlain == \A k \in DOMAIN setlog : (C2_Pre(k) /\ C2_Plain(k)) => C2_Post(k)

\* a request that binds a named parameter and a wildcard parameter of one pattern
C2_Witness ==
    \E k \in DOMAIN setlog :
        /\ C2_Pre(k) /\ C2_Plain(k) /\ C2_Post(k)
        /\ Len(Inst(setlog[k].pattern, Walked).binds) = 2
        /\ Len(res.ps) = 2
        /\ Len(res.fcs) > 0

\* ------------------------------------------------------------ C4
\* calls k1 < k2 register the same pattern with the same method, and none follows
C4_Twice(k1, k2) ==
    /\ k1 < k2
    /\ setlog[k1].url = setlog[k2].url
    /\ setlog[k1].method = setlog[k2].method
    /\ setlog[k2].node # nil
    /\ \A k \in RegCalls(setlog[k2].node, setlog[k2].method) : k <= k2

\* C4: after two Set calls with the same pattern and method, the chain cached for
\* them, and returned by match, is the one of the second call; it holds no handler
\* of the first call.
C4_Reregistration ==
    \A k1, k2 \in DOMAIN setlog :
        C4_Twice(k1, k2) =>
           LET n == setlog[k2].node
               m == setlog[k2].method
               second == filterHandlers(setlog[k2].handlers)
           IN /\ CacheOf(routes[n], m) = second
              /\ Range(CacheOf(routes[n], m)) \cap Range(setlog[k1].handlers) = {}
              /\ (req.served /\ res.node = n /\ req.m = m) => res.fcs = second

\* a request matched by a pattern that was registered twice with its method
C4_Witness ==
    \E k1, k2 \in DOMAIN setlog :
        /\ C4_Twice(k1, k2)
        /\ req.served /\ res.node = setlog[k2].node /\ req.m = setlog[k2].method
        /\ res.fcs = filterHandlers(setlog[k2].handlers)

\* ------------------------------------------------------------ C10
\* the named children of route p
NamedChildren(p) ==
    {n \in DOMAIN routes : routes[n].parent = p /\ IsNamed(routes[n].fragment)}

\* the first Set call whose pattern walks through route n
FirstThrough(n) ==
    LET S == {k \in DOMAIN setlog : n \in Range(PathTo(routes, setlog[k].node))}
    IN CHOOSE k \in S : \A j \in S : k <= j

\* the position of route n below the root
DepthOf(n) == Len(PathTo(routes, n))

\* C10: a route has at most one named child, named as in the first pattern that
\* made it; a later pattern with another name there walks through the same child,
\* and a request binds the name of the first pattern only.
C10_FirstNameWins ==
    /\ \A p \in DOMAIN routes :
          /\ Cardinality(NamedChildren(p)) <= 1
          /\ NamedChildren(p) \subseteq {routes[p].colon}
    /\ \A n \in DOMAIN routes :
          IsNamed(routes[n].fragment) =>
             routes[n].fragment = setlog[FirstThrough(n)].pattern[DepthOf(n)]
    /\ \A k \in DOMAIN setlog :
          LET ns == PathTo(routes, setlog[k].node)
          IN setlog[k].node # nil =>
               \A i \in DOMAIN ns :
                  /\ IsNamed(setlog[k].pattern[i]) <=> IsNamed(routes[ns[i]].fragment)
                  /\ IsNamed(setlog[k].pattern[i]) =>
                        ns[i] = routes[routes[ns[i]].parent].colon
    /\ (req.served /\ res.node # nil) =>
          /\ ParamKeys(res.ps) \subseteq
                ParamNamesOf(routes, Range(PathTo(routes, res.node)))
          /\ \A n \in Range(PathTo(routes, res.node)) :
                IsNamed(routes[n].fragment) => ParamName(routes[n].fragment) \in ParamKeys(res.ps)

\* a request resolved through a named position at which a second pattern used
\* another name: the name of the first pattern is bound, the later one is not
C10_Witness ==
    \E k1, k2 \in DOMAIN setlog :
        /\ k1 < k2
        /\ IsNamed(setlog[k1].pattern[1]) /\ IsNamed(setlog[k2].pattern[1])
        /\ setlog[k1].pattern[1] # setlog[k2].pattern[1]
        /\ req.served /\ res.node = setlog[k2].node
        /\ ParamName(setlog[k1].pattern[1]) \in ParamKeys(res.ps)
        /\ ParamName(setlog[k2].pattern[1]) \notin ParamKeys(res.ps)

\* ------------------------------------------------------------ the pipeline: values
\* Values, errors and panic values are pairs <<kind, position of the entry
\* that produced them>>.
NilV == <<"nil", 0>>
Val(p) == <<"val", p>>
Err(p) == <<"err", p>>
PanicVal(p) == <<"pval", p>>    \* panic(v) with v not an error
PanicErr(p) == <<"perr", p>>    \* panic(e) with e an error
NoPanic == <<"none", 0>>

\* fmt.Errorf("%s: %v", ErrCrash, e)
Crash(e) == <<"crash", e[2]>>

\* mutant of ToErr: every panic value is wrapped
ToErrWrapped(e) == Crash(e)
\* the deferred function of Next: the error it hands to handleErr
ToErr(e) == IF e[1] = "perr" THEN e ELSE Crash(e)

\* ------------------------------------------------------------ the pipeline: chain entries
\* An entry is its call shape, the calls it makes on x while it runs, and how
\* it ends: "ok", "err", "panicVal", "panicErr" for a handler, and "pass" (returns
\* the error it was given), "nil", "new", "panicVal" for an error-handler.
H(k, ops, out) == [k |-> k, ops |-> ops, out |-> out]

Callable ==
    { "FuncX2None", "FuncX2Any", "FuncX2Err", "FuncX2AnyErr",
      "FuncAny2None", "FuncAny2Any", "FuncAny2Err", "FuncAny2AnyErr",
      "FuncHttp2None", "FuncHttp2Any", "FuncHttp2Err", "FuncHttp2AnyErr" }
TakesArg == { "FuncAny2None", "FuncAny2Any", "FuncAny2Err", "FuncAny2AnyErr" }
ReturnsAny ==
    { "FuncX2Any", "FuncX2AnyErr", "FuncAny2Any", "FuncAny2AnyErr",
      "FuncHttp2Any", "FuncHttp2AnyErr" }
ReturnsErr ==
    { "FuncX2Err", "FuncX2AnyErr", "FuncAny2Err", "FuncAny2AnyErr",
      "FuncHttp2Err", "FuncHttp2AnyErr" }
Panics == { "panicVal", "panicErr" }

Entries ==
    { H("FuncX2AnyErr", ops, out) :
        ops \in { <<>>, <<"Stop">>, <<"Skip">>, <<"Next">> }, out \in { "ok", "err" } }
    \cup { H("FuncX2AnyErr", <<>>, "panicVal"), H("FuncX2AnyErr", <<>>, "panicErr"),
           H("FuncX2AnyErr", <<"Stop">>, "panicVal") }
    \cup { H("FuncAny2Any", <<>>, "ok"), H("FuncX2None", <<>>, "ok"),
           H("FuncHttp2Err", <<>>, "err") }
    \cup { H("FuncErr", <<>>, out) : out \in { "pass", "nil", "new", "panicVal" } }
    \cup { H("FuncErr", <<"Next">>, "nil"), H("FuncErr", <<"Skip">>, "pass"),
           H("FuncErr", <<"Stop">>, "pass") }
    \cup { H("FuncX2AnyErr", <<"Skip0">>, "ok"), H("FuncX2AnyErr", <<"Skip2">>, "ok"),
           H("FuncX2AnyErr", <<"Skip2">>, "err"), H("FuncX2AnyErr", <<"SkipMax">>, "ok") }

Chains == SeqsOf(Entries, 1, MaxChain)

\* mutant of RetVal: the response of the entry before stays when an entry has none
RetValKept(b, pos) ==
    IF b.out = "ok" /\ b.k \in ReturnsAny THEN Val(pos) ELSE stack[Len(stack) - 1].in
\* what Next keeps of a handler's return
RetVal(b, pos) == IF b.out = "ok" /\ b.k \in ReturnsAny THEN Val(pos) ELSE NilV
RetErr(b, pos) == IF b.out = "err" /\ b.k \in ReturnsErr THEN Err(pos) ELSE NilV
\* what an error-handler returns for the error it was given
ErrOut(b, pos, in) ==
    IF b.out = "pass" THEN in ELSE IF b.out = "new" THEN Err(pos) ELSE NilV

StopFid == 99999999
StopSkipsOne(fid) == fid + 1
Stop(fid) == StopFid

\* the largest uint, and the conversion int(count) of a uint
MaxUint == 2^WordBits - 1
ToInt(u) == IF u >= 2^(WordBits - 1) THEN u - 2^WordBits ELSE u

\* the calls of Skip an entry makes, with the arguments they pass
SkipCalls == { "Skip", "Skip0", "Skip2", "SkipMax" }
SkipArgs(op) ==
    IF op = "Skip0" THEN <<0>> ELSE IF op = "Skip2" THEN <<2>>
    ELSE IF op = "SkipMax" THEN <<MaxUint>> ELSE <<>>

\* mutant of Skip: the cursor goes back by the count
SkipBack(fid, counts) == fid - (IF Len(counts) > 0 THEN ToInt(counts[1]) ELSE 1)
\* mutant of Skip: without a count the cursor goes back to the entry that runs
SkipAgain(fid, counts) == IF Len(counts) > 0 THEN fid + ToInt(counts[1]) ELSE fid - 1
\* mutant of Skip: the argument is not looked at
SkipOne(fid, counts) == fid + 1
Skip(fid, counts) == fid + (IF Len(counts) > 0 THEN ToInt(counts[1]) ELSE 1)

IsCallable(fc) == fc.k \in Callable
IsFuncErrAlways(fc) == TRUE
IsFuncErr(fc) == fc.k = "FuncErr"

\* ------------------------------------------------------------ the pipeline: frames
Top == stack[Len(stack)]
Below == SubSeq(stack, 1, Len(stack) - 1)
SetTop(fr) == [stack EXCEPT ![Len(stack)] = fr]

NextFrame(arg) ==
    [f |-> "Next", pc |-> "start", pos |-> 0, ops |-> <<>>, in |-> arg,
     val |-> NilV, err |-> NilV, scan |-> 0]
FnFrame(pos, as, in) ==
    [f |-> "fn", pc |-> as, pos |-> pos, ops |-> xfcs[pos].ops, in |-> in,
     val |-> NilV, err |-> NilV, scan |-> 0]
ScanFrame(err, id) ==
    [f |-> "handleErr", pc |-> "loop", pos |-> 0, ops |-> <<>>, in |-> err,
     val |-> NilV, err |-> err, scan |-> id]

\* Next returns: its caller is a handler, which goes on, or the last statement
\* of another Next, which returns as well.
RECURSIVE PopNexts(_)
PopNexts(stk) ==
    IF stk # <<>> /\ stk[Len(stk)].f = "Next"
    THEN PopNexts(SubSeq(stk, 1, Len(stk) - 1))
    ELSE stk

StateAfter(stk) == IF stk = <<>> THEN "returned" ELSE "running"

Invocation(pos, as, in, scan) ==
    [pos |-> pos, as |-> as, in |-> in, afterStop |-> stopped, scan |-> scan]
NewScan(at, by, err) ==
    [at |-> at, by |-> by, start |-> xfid, first |-> err, visited |-> <<>>,
     passed |-> <<>>, returned |-> <<>>, handled |-> "open", endfid |-> xfid]

Running == xstate = "running" /\ panicking = NoPanic /\ stack # <<>>

\* ------------------------------------------------------------ the pipeline: actions
InitX ==
    /\ routes = <<NewRouter>>
    /\ setlog = <<>>
    /\ crashed = FALSE
    /\ req = NoReq
    /\ res = NoRes
    /\ xchain \in Chains
    /\ xfcs = <<>> /\ xfid = 0 /\ stack = <<>>
    /\ panicking = NoPanic /\ calls = <<>> /\ scans = <<>>
    /\ stopped = FALSE /\ xstate = "acquired"
    /\ IdleP
    /\ IdleM

\* ServeHTTP once match has returned the chain: x.fcs = fcs; x.Next()
Serve ==
    /\ xstate = "acquired"
    /\ xfcs' = xchain
    /\ stack' = <<NextFrame(NilV)>>
    /\ xstate' = "running"
    /\ UNCHANGED <<varsRoute, varsP, varsM, xchain, xfid, panicking, calls, scans, stopped>>

\* Next: the cursor is at or past the end
NextReturn ==
    /\ Running /\ Top.f = "Next" /\ Top.pc = "start"
    /\ xfid >= Len(xfcs)
    /\ stack' = PopNexts(stack)
    /\ xstate' = StateAfter(stack')
    /\ UNCHANGED <<varsRoute, varsP, varsM, xchain, xfcs, xfid, panicking, calls, scans, stopped>>

\* Next: fetch the entry, advance the cursor, call the entry by its shape
NextInvoke ==
    /\ Running /\ Top.f = "Next" /\ Top.pc = "start"
    /\ xfid < Len(xfcs)
    /\ Len(calls) < MaxCalls
    /\ LET pos == xfid + 1
           fc == xfcs[pos]
           arg == IF fc.k \in TakesArg THEN Top.in ELSE NilV
       IN /\ IsCallable(fc)
          /\ xfid' = xfid + 1
          /\ stack' = Append(SetTop([Top EXCEPT !.pc = "called", !.pos = pos]),
                             FnFrame(pos, "handler", arg))
          /\ calls' = Append(calls, Invocation(pos, "handler", arg, 0))
    /\ UNCHANGED <<varsRoute, varsP, varsM, xchain, xfcs, panicking, scans, stopped, xstate>>

\* Next: the entry is an error-handler (or of no known shape): do nothing
NextPassOver ==
    /\ Running /\ Top.f = "Next" /\ Top.pc = "start"
    /\ xfid < Len(xfcs)
    /\ ~IsCallable(xfcs[xfid + 1])
    /\ xfid' = xfid + 1
    /\ stack' = SetTop([Top EXCEPT !.pc = "returned", !.pos = xfid + 1])
    /\ UNCHANGED <<varsRoute, varsP, varsM, xchain, xfcs, panicking, calls, scans, stopped, xstate>>

\* a running entry calls x.Stop()
FnStop ==
    /\ Running /\ Top.f = "fn" /\ Top.ops # <<>> /\ Head(Top.ops) = "Stop"
    /\ xfid' = Stop(xfid)
    /\ stopped' = TRUE
    /\ stack' = SetTop([Top EXCEPT !.ops = Tail(@)])
    /\ UNCHANGED <<varsRoute, varsP, varsM, xchain, xfcs, panicking, calls, scans, xstate>>

\* a running entry calls x.Skip()
FnSkip ==
    /\ Running /\ Top.f = "fn" /\ Top.ops # <<>> /\ Head(Top.ops) \in SkipCalls
    /\ xfid' = Skip(xfid, SkipArgs(Head(Top.ops)))
    /\ stack' = SetTop([Top EXCEPT !.ops = Tail(@)])
    /\ UNCHANGED <<varsRoute, varsP, varsM, xchain, xfcs, panicking, calls, scans, stopped, xstate>>

\* a running entry calls x.Next()
FnNext ==
    /\ Running /\ Top.f = "fn" /\ Top.ops # <<>> /\ Head(Top.ops) = "Next"
    /\ stack' = Append(SetTop([Top EXCEPT !.ops = Tail(@)]), NextFrame(NilV))
    /\ UNCHANGED <<varsRoute, varsP, varsM, xchain, xfcs, xfid, panicking, calls, scans, stopped, xstate>>

\* a running entry returns to Next (response, err) or to handleErr (err)
FnReturn ==
    /\ Running /\ Top.f = "fn" /\ Top.ops = <<>>
    /\ xfcs[Top.pos].out \notin Panics
    /\ LET b == xfcs[Top.pos]
           caller == stack[Len(stack) - 1]
           after == IF Top.pc = "handler"
                    THEN [caller EXCEPT !.pc = "returned", !.val = RetVal(b, Top.pos),
                                        !.err = RetErr(b, Top.pos)]
                    ELSE [caller EXCEPT !.pc = "returned",
                                        !.err = ErrOut(b, Top.pos, Top.in)]
       IN stack' = Append(SubSeq(stack, 1, Len(stack) - 2), after)
    /\ UNCHANGED <<varsRoute, varsP, varsM, xchain, xfcs, xfid, panicking, calls, scans, stopped, xstate>>

\* a running entry panics
FnPanic ==
    /\ Running /\ Top.f = "fn" /\ Top.ops = <<>>
    /\ xfcs[Top.pos].out \in Panics
    /\ panicking' = IF xfcs[Top.pos].out = "panicErr" THEN PanicErr(Top.pos)
                    ELSE PanicVal(Top.pos)
    /\ stack' = Below
    /\ UNCHANGED <<varsRoute, varsP, varsM, xchain, xfcs, xfid, calls, scans, stopped, xstate>>

\* Next: the entry returned an error: x.handleErr(err); return
NextOnErr ==
    /\ Running /\ Top.f = "Next" /\ Top.pc = "returned"
    /\ Top.err # NilV
    /\ scans' = Append(scans, NewScan(Top.pos, "return", Top.err))
    /\ stack' = Append(SetTop([Top EXCEPT !.pc = "scanning"]),
                       ScanFrame(Top.err, Len(scans) + 1))
    /\ UNCHANGED <<varsRoute, varsP, varsM, xchain, xfcs, xfid, panicking, calls, stopped, xstate>>

\* Next: no error: x.Next(response)
NextRecurse ==
    /\ Running /\ Top.f = "Next" /\ Top.pc = "returned"
    /\ Top.err = NilV
    /\ stack' = Append(SetTop([Top EXCEPT !.pc = "tail"]), NextFrame(Top.val))
    /\ UNCHANGED <<varsRoute, varsP, varsM, xchain, xfcs, xfid, panicking, calls, scans, stopped, xstate>>

\* The frames of Next whose deferred function has not run yet.
Armed == { i \in DOMAIN stack : stack[i].f = "Next" /\ stack[i].pc # "deferred" }
Innermost(S) == CHOOSE i \in S : \A j \in S : j <= i

\* A panic unwinds to the innermost Next whose deferred function has not run:
\* it recovers, converts the value and calls handleErr. With no such frame the
\* panic leaves the outermost Next.
Recover ==
    /\ xstate = "running" /\ panicking # NoPanic
    /\ IF Armed = {}
       THEN /\ stack' = <<>>
            /\ xstate' = "escaped"
            /\ UNCHANGED <<panicking, scans>>
       ELSE LET i == Innermost(Armed)
                err == ToErr(panicking)
            IN /\ scans' = Append(scans, NewScan(stack[i].pos, "recover", err))
               /\ stack' = SubSeq(stack, 1, i - 1)
                           \o << [stack[i] EXCEPT !.pc = "deferred", !.err = err],
                                 ScanFrame(err, Len(scans) + 1) >>
               /\ panicking' = NoPanic
               /\ UNCHANGED xstate
    /\ UNCHANGED <<varsRoute, varsP, varsM, xchain, xfcs, xfid, calls, stopped>>

CloseScan(id, handled) ==
    [scans EXCEPT ![id].handled = handled, ![id].endfid = xfid]

\* handleErr: the cursor is at or past the end: return false
ScanExhausted ==
    /\ Running /\ Top.f = "handleErr" /\ Top.pc = "loop"
    /\ xfid >= Len(xfcs)
    /\ scans' = CloseScan(Top.scan, "false")
    /\ stack' = PopNexts(Below)
    /\ xstate' = StateAfter(stack')
    /\ UNCHANGED <<varsRoute, varsP, varsM, xchain, xfcs, xfid, panicking, calls, stopped>>

\* handleErr: the entry at the cursor is not an error-handler
ScanSkip ==
    /\ Running /\ Top.f = "handleErr" /\ Top.pc = "loop"
    /\ xfid < Len(xfcs)
    /\ ~IsFuncErr(xfcs[xfid + 1])
    /\ xfid' = xfid + 1
    /\ UNCHANGED <<varsRoute, varsP, varsM, xchain, xfcs, stack, panicking, calls, scans, stopped, xstate>>

\* handleErr: the entry at the cursor is an error-handler: err = fc(x, err)
ScanInvoke ==
    /\ Running /\ Top.f = "handleErr" /\ Top.pc = "loop"
    /\ xfid < Len(xfcs)
    /\ Len(calls) < MaxCalls
    /\ IsFuncErr(xfcs[xfid + 1])
    /\ xfid' = xfid + 1
    /\ stack' = Append(SetTop([Top EXCEPT !.pc = "called"]),
                       FnFrame(xfid + 1, "errhandler", Top.err))
    /\ calls' = Append(calls, Invocation(xfid + 1, "errhandler", Top.err, Top.scan))
    /\ scans' = [scans EXCEPT ![Top.scan].visited = Append(@, xfid + 1),
                              ![Top.scan].passed = Append(@, Top.err)]
    /\ UNCHANGED <<varsRoute, varsP, varsM, xchain, xfcs, panicking, stopped, xstate>>

ScanEnds(err) == err = NilV

\* mutant of ScanHandled: the Next that called handleErr goes on with the chain
ScanHandledResumes ==
    /\ Running /\ Top.f = "handleErr" /\ Top.pc = "returned"
    /\ ScanEnds(Top.err)
    /\ scans' = [CloseScan(Top.scan, "true") EXCEPT ![Top.scan].returned = Append(@, Top.err)]
    /\ stack' = Append(Below, NextFrame(NilV))
    /\ UNCHANGED <<varsRoute, varsP, varsM, xchain, xfcs, xfid, panicking, calls, stopped, xstate>>

\* handleErr: the error-handler returned nil: return true
ScanHandled ==
    /\ Running /\ Top.f = "handleErr" /\ Top.pc = "returned"
    /\ ScanEnds(Top.err)
    /\ scans' = [CloseScan(Top.scan, "true") EXCEPT ![Top.scan].returned = Append(@, Top.err)]
    /\ stack' = PopNexts(Below)
    /\ xstate' = StateAfter(stack')
    /\ UNCHANGED <<varsRoute, varsP, varsM, xchain, xfcs, xfid, panicking, calls, stopped>>

\* handleErr: the error-handler returned an error: go on with it
ScanContinue ==
    /\ Running /\ Top.f = "handleErr" /\ Top.pc = "returned"
    /\ ~ScanEnds(Top.err)
    /\ scans' = [scans EXCEPT ![Top.scan].returned = Append(@, Top.err)]
    /\ stack' = SetTop([Top EXCEPT !.pc = "loop"])
    /\ UNCHANGED <<varsRoute, varsP, varsM, xchain, xfcs, xfid, panicking, calls, stopped, xstate>>

\* mutant of Truncate: the parameters stay
TruncateNone(ps) == ps
\* x.Params[0:0]
Truncate(ps) == SubSeq(ps, 1, 0)

\* the record of the request being served, completed with the cursor and the
\* parameters release finds
Ended(log) ==
    IF log = <<>> THEN log
    ELSE [log EXCEPT ![Len(log)].endfid = xfid, ![Len(log)].endps = res.ps]

\* ServeHTTP's deferred release(x): it runs when Next has returned and when a
\* panic goes up through ServeHTTP
release ==
    /\ xstate \in { "returned", "escaped" }
    /\ xfid' = 0
    /\ res' = NoMatch(Truncate(res.ps))
    /\ req' = NoReq
    /\ xfcs' = <<>>
    /\ xstate' = "released"
    /\ setlog' = Ended(setlog)
    /\ UNCHANGED <<routes, crashed, varsP, varsM, xchain, stack, panicking, calls, scans, stopped>>

NextX ==
    \/ Serve
    \/ NextReturn \/ NextInvoke \/ NextPassOver \/ NextOnErr \/ NextRecurse
    \/ FnStop \/ FnSkip \/ FnNext \/ FnReturn \/ FnPanic
    \/ Recover
    \/ ScanExhausted \/ ScanSkip \/ ScanInvoke \/ ScanHandled \/ ScanContinue
    \/ release

SpecX == InitX /\ [][NextX]_vars

\* ------------------------------------------------------------ C5
\* C5 (short-circuit): once a handler of the request has called Stop, no chain
\* entry is invoked any more for the rest of the request, neither as an ordinary
\* handler by Next nor as an error-handler by handleErr, whether the stopping
\* handler then returns a value, returns an error or panics.
C5_NoInvocationAfterStop ==
    \A i \in DOMAIN calls : ~calls[i].afterStop

\* A request is over in which a handler called Stop and then returned an error,
\* with an error-handler right behind it that was never invoked.
C5_Witness ==
    /\ xstate = "returned" /\ stopped
    /\ \E i \in DOMAIN calls :
         LET p == calls[i].pos
         IN /\ xchain[p].ops = <<"Stop">> /\ xchain[p].out = "err"
            /\ p < Len(xchain) /\ xchain[p + 1].k = "FuncErr"
            /\ \A j \in DOMAIN calls : calls[j].pos # p + 1

\* ------------------------------------------------------------ C6
\* The runs of handleErr that Next started for a returned error and that
\* have reported.
ReturnScans ==
    { i \in DOMAIN scans : scans[i].by = "return" /\ scans[i].handled # "open" }

\* What a scan over chain ch from position p on with error e is to do: the
\* error-handlers it invokes, the error it passes to each, and its report.
RECURSIVE ScanFrom(_, _, _)
ScanFrom(ch, p, e) ==
    IF p > Len(ch)
    THEN [visited |-> <<>>, passed |-> <<>>, handled |-> "false", endfid |-> Len(ch)]
    ELSE IF ch[p].k # "FuncErr"
    THEN ScanFrom(ch, p + 1, e)
    ELSE LET r == ErrOut(ch[p], p, e)
         IN IF r = NilV
            THEN [visited |-> <<p>>, passed |-> <<e>>, handled |-> "true", endfid |-> p]
            ELSE LET rest == ScanFrom(ch, p + 1, r)
                 IN [rest EXCEPT !.visited = <<p>> \o @, !.passed = <<e>> \o @]

\* the scan s went exactly as ScanFrom says for the positions behind s.at
C6_Exact(s) ==
    LET e == ScanFrom(xchain, s.at + 1, s.first)
    IN /\ s.visited = e.visited
       /\ s.passed = e.passed
       /\ s.handled = e.handled
       /\ s.handled = "true" => s.endfid = e.endfid
       /\ s.handled = "false" => s.endfid >= Len(xchain)

\* neither the failing handler nor a visited error-handler moved the cursor
C6_Still(s) ==
    /\ xchain[s.at].ops = <<>>
    /\ \A j \in DOMAIN s.visited : xchain[s.visited[j]].ops = <<>>

\* what holds of the scan s numbered i wherever the cursor was
C6_General(i, s) ==
    /\ s.first = Err(s.at)
    /\ Len(s.returned) = Len(s.visited) /\ Len(s.passed) = Len(s.visited)
    /\ \A j \in DOMAIN s.visited :
         /\ xchain[s.visited[j]].k = "FuncErr"
         /\ s.visited[j] > s.start
         /\ j > 1 => s.visited[j] > s.visited[j - 1]
         /\ s.passed[j] = IF j = 1 THEN s.first ELSE s.returned[j - 1]
         /\ s.returned[j] = ErrOut(xchain[s.visited[j]], s.visited[j], s.passed[j])
         /\ j < Len(s.visited) => s.returned[j] # NilV
    /\ s.handled = "true" => s.visited # <<>> /\ s.returned[Len(s.returned)] = NilV
    /\ s.handled = "false" =>
         /\ s.endfid >= Len(xchain)
         /\ \A j \in DOMAIN s.returned : s.returned[j] # NilV
    /\ \A c \in DOMAIN calls :
         calls[c].scan = i =>
            /\ calls[c].as = "errhandler"
            /\ \E j \in DOMAIN s.visited :
                 s.visited[j] = calls[c].pos /\ s.passed[j] = calls[c].in

\* C6 as stated: when the handler at position i returns an error, the scan
\* visits the positions i+1.. in order, invokes the error-handlers only, passes
\* each the error the previous one returned (the handler's error to the first),
\* reports handled=true at the first one that returns nil, and otherwise
\* reports handled=false with the cursor at the end of the chain.
C6_ScanFromNextPosition ==
    \A i \in ReturnScans : scans[i].first = Err(scans[i].at) /\ C6_Exact(scans[i])

\* C6 (error-recovery scan), amended: the scan starts at the cursor, which is
\* i+1 only when the failing handler has not moved it (Skip, Stop or a nested
\* Next); from there it takes the entries in ascending order, invokes the
\* error-handlers only, passes each the error the previous one returned,
\* reports handled=true as soon as one returns nil and handled=false with the
\* cursor at or past the end otherwise. When neither the failing handler nor a
\* visited error-handler moves the cursor the scan is exactly the one over
\* i+1.., and an unhandled scan leaves the cursor at the chain length.
C6_ScanFromCursor ==
    \A i \in ReturnScans :
        /\ C6_General(i, scans[i])
        /\ C6_Still(scans[i]) =>
             /\ scans[i].start = scans[i].at
             /\ C6_Exact(scans[i])
             /\ scans[i].handled = "false" => scans[i].endfid = Len(xchain)

\* The request is over; the first handler returned an error, the error-handler
\* behind it passed the error on, and the next one returned nil: handled.
C6_Witness ==
    /\ xstate = "returned"
    /\ \E i \in ReturnScans :
         LET s == scans[i]
         IN /\ C6_Still(s) /\ s.handled = "true"
            /\ Len(s.visited) = 2 /\ s.passed = <<s.first, s.first>>

\* ------------------------------------------------------------ the binder: values
\* A raw string is a sequence of characters. A field value is an int, a
\* string, or the nil of a pointer field.
IntV(v) == [t |-> "int", i |-> v, s |-> <<>>]
StrV(str) == [t |-> "str", i |-> 0, s |-> str]
Unset == [t |-> "nil", i |-> 0, s |-> <<>>]
BoolV(b) == [t |-> "bool", i |-> IF b THEN 1 ELSE 0, s |-> <<>>]
\* a time.Time: the date and the clock a layout gave it, or seconds since the epoch
TimeV(date, clock) == [t |-> "time", i |-> 0, s |-> <<date, clock>>]
\* a []string
StrsV(strs) == [t |-> "strs", i |-> 0, s |-> strs]
UnixV(sec) == [t |-> "time", i |-> sec, s |-> <<"unix">>]

DigitOf ==
    ("0" :> 0) @@ ("1" :> 1) @@ ("2" :> 2) @@ ("3" :> 3) @@ ("4" :> 4) @@
    ("5" :> 5) @@ ("6" :> 6) @@ ("7" :> 7) @@ ("8" :> 8) @@ ("9" :> 9)

RECURSIVE DigitsValue(_, _)
DigitsValue(str, acc) ==
    IF str = <<>> THEN acc ELSE DigitsValue(Tail(str), acc * 10 + DigitOf[Head(str)])

\* strconv.ParseInt(str, 10, 64) for strings too short to leave the range
ParseInt(str) ==
    LET signed == str # <<>> /\ Head(str) \in { "+", "-" }
        digits == IF signed THEN Tail(str) ELSE str
    IN IF digits = <<>> \/ \E i \in DOMAIN digits : digits[i] \notin DOMAIN DigitOf
       THEN [ok |-> FALSE, v |-> 0]
       ELSE [ok |-> TRUE,
             v |-> IF signed /\ Head(str) = "-" THEN 0 - DigitsValue(digits, 0)
                   ELSE DigitsValue(digits, 0)]

\* strconv.ParseUint(str, 10, 64): digits only, no sign
ParseUint(str) ==
    IF str = <<>> \/ \E i \in DOMAIN str : str[i] \notin DOMAIN DigitOf
    THEN [ok |-> FALSE, v |-> 0]
    ELSE [ok |-> TRUE, v |-> DigitsValue(str, 0)]

\* mutant of SetInt: the field holds the 64-bit value whatever its width
SetIntWide(kind, v) == v

\* reflect.Value.SetInt and SetUint store the 64-bit value in the field's width
\* by a plain conversion: the high bits are dropped
SetInt(kind, v) == IF kind = "int8" THEN ((v + 128) % 256) - 128 ELSE v
SetUint(kind, v) == IF kind = "uint8" THEN v % 256 ELSE v

\* strings.Split(str, ","), the parts the code fills a []string with
RECURSIVE Split(_)
Split(str) ==
    IF "," \notin Range(str) THEN <<str>>
    ELSE LET i == CHOOSE k \in DOMAIN str : str[k] = "," /\ \A j \in 1..(k - 1) : str[j] # ","
         IN <<SubSeq(str, 1, i - 1)>> \o Split(SubSeq(str, i + 1, Len(str)))

\* strings.ToLower on the letters the inputs use
Lower ==
    ("T" :> "t") @@ ("R" :> "r") @@ ("U" :> "u") @@ ("E" :> "e") @@ ("Y" :> "y") @@
    ("S" :> "s") @@ ("O" :> "o") @@ ("N" :> "n") @@ ("F" :> "f") @@ ("A" :> "a") @@
    ("L" :> "l") @@ ("I" :> "i") @@ ("D" :> "d")
ToLower(str) == [i \in DOMAIN str |-> IF str[i] \in DOMAIN Lower THEN Lower[str[i]] ELSE str[i]]

\* strconv.ParseBool
ParseBool(str) ==
    IF str \in { <<"1">>, <<"t">>, <<"T">>, <<"T", "R", "U", "E">>,
                 <<"t", "r", "u", "e">>, <<"T", "r", "u", "e">> }
    THEN [ok |-> TRUE, v |-> TRUE]
    ELSE IF str \in { <<"0">>, <<"f">>, <<"F">>, <<"F", "A", "L", "S", "E">>,
                      <<"f", "a", "l", "s", "e">>, <<"F", "a", "l", "s", "e">> }
    THEN [ok |-> TRUE, v |-> FALSE]
    ELSE [ok |-> FALSE, v |-> FALSE]

\* lines 706-715: the spellings convertToBool takes itself, after ToLower
convertToBool(str) ==
    LET lower == ToLower(str)
    IN IF lower \in { <<"t", "r", "u", "e">>, <<"1">>, <<"y", "e", "s">>, <<"o", "n">>,
                      <<"y">>, <<"t">> }
       THEN [ok |-> TRUE, v |-> TRUE]
       ELSE IF lower \in { <<"f", "a", "l", "s", "e">>, <<"0">>, <<"n", "o">>,
                           <<"o", "f", "f">>, <<"n">>, <<"f">>, <<>> }
       THEN [ok |-> TRUE, v |-> FALSE]
       ELSE ParseBool(str)

\* In a timestamp a date ("2025-07-09") and a clock ("02:47:00") are one element
\* of the string each; a layout names the class of each element.
Date == "2025-07-09"
Clock == "02:47:00"
Class(tok) ==
    IF tok = Date THEN "date" ELSE IF tok = Clock THEN "clock"
    ELSE IF tok = "Z" THEN "zone" ELSE tok
RFC3339 == <<"date", "T", "clock", "zone">>
\* time.Parse(layout, str): a date that is not given is 0000-01-01, a clock 00:00:00
TimeParse(layout, str) ==
    IF Len(str) = Len(layout) /\ \A i \in DOMAIN str : Class(str[i]) = layout[i]
    THEN [ok |-> TRUE,
          v |-> TimeV(IF "date" \in Range(layout) THEN Date ELSE "0000-01-01",
                      IF "clock" \in Range(layout) THEN Clock ELSE "00:00:00")]
    ELSE [ok |-> FALSE, v |-> TimeV("", "")]

\* lines 741-748: RFC3339Nano takes what RFC3339 takes when parsing
formats ==
    << RFC3339, RFC3339, <<"date", "T", "clock">>, <<"date", " ", "clock">>,
       <<"date">>, <<"clock">> >>

\* lines 739-766: the first layout that parses, then a Unix timestamp in seconds
convertToTime(str) ==
    LET fit == { i \in DOMAIN formats : TimeParse(formats[i], str).ok }
    IN IF fit # {}
       THEN TimeParse(formats[CHOOSE i \in fit : \A j \in fit : i <= j], str)
       ELSE IF ParseInt(str).ok THEN [ok |-> TRUE, v |-> UnixV(ParseInt(str).v)]
       ELSE [ok |-> FALSE, v |-> TimeV("", "")]

\* ------------------------------------------------------------ the binder: targets
\* A field: its lookup key, its parse tag, its kind, whether it is a pointer,
\* its default tag (empty: none).
Fd(key, parse, kind, ptr, def) ==
    [key |-> key, parse |-> parse, kind |-> kind, ptr |-> ptr, def |-> def]

FieldQ == Fd("q", "query", "string", FALSE, <<>>)
FieldN == Fd("n", "query", "int", TRUE, <<>>)
FieldF == Fd("f", "query", "int", FALSE, <<"1", "0">>)
FieldS == Fd("s", "query", "string", FALSE, <<"d">>)
FieldB == Fd("b", "query", "int", FALSE, <<"x">>)
FieldP == Fd("p", "query", "int", TRUE, <<"1", "0">>)
FieldH == Fd("h", "header", "int", FALSE, <<"1", "0">>)
FieldPool == { FieldQ, FieldN, FieldF, FieldS, FieldB, FieldP, FieldH }

Targets ==
    { t \in SeqsOf(FieldPool, 1, MaxFields) :
        \A i, j \in DOMAIN t : i # j => t[i].key # t[j].key }

\* the zero value a fresh target holds in a field
Ints == {"int", "int8"}
Uints == {"uint", "uint8"}
Zero(fd) ==
    IF fd.ptr THEN Unset
    ELSE IF fd.kind \in Ints \cup Uints THEN IntV(0)
    ELSE IF fd.kind = "bool" THEN BoolV(FALSE)
    ELSE IF fd.kind = "time" THEN TimeV("0001-01-01", "00:00:00")
    ELSE IF fd.kind = "strings" THEN StrsV(<<>>)
    ELSE StrV(<<>>)

\* ------------------------------------------------------------ the binder: requests
RawValues ==
    { <<>>, <<"7">>, <<"-", "3">>, <<"+", "5">>, <<"a", "b", "c">>, <<"1", "a">>,
      <<"h", "i">> }
\* the values a query key carries: one, or several of which the first counts
QueryValues ==
    { <<v>> : v \in RawValues } \cup { << <<"7">>, <<"a", "b", "c">> >> }

\* Content-Type and what the body is for it
Bodies ==
    { <<"", "empty">>,
      <<"application/json", "empty">>, <<"application/json", "valid">>,
      <<"application/json", "malformed">>,
      <<"application/x-www-form-urlencoded", "valid">>,
      <<"application/x-www-form-urlencoded", "malformed">>,
      <<"multipart/form-data", "valid">>, <<"multipart/form-data", "malformed">> }

KeysOf(t, parse) == { t[i].key : i \in { j \in DOMAIN t : t[j].parse = parse } }

Maps(K, V) == UNION { [D -> V] : D \in SUBSET K }

RequestsFor(t) ==
    { [ctype |-> b[1], body |-> b[2], query |-> q, header |-> h] :
        b \in Bodies,
        q \in Maps(KeysOf(t, "query"), QueryValues),
        h \in Maps(KeysOf(t, "header"), RawValues) }

\* ------------------------------------------------------------ the binder: X.Parse
NoResult == [kind |-> "none", code |-> 0, arg |-> "", cause |-> ""]
ParseOk == [kind |-> "nil", code |-> 0, arg |-> "", cause |-> ""]
\* parserErr.WithArgs(fieldName, err)
ParserErr(key, cause) == [kind |-> "parserErr", code |-> 409, arg |-> key, cause |-> cause]
\* ErrArgInvalid.WithArgs(err)
ArgInvalid(cause) == [kind |-> "ErrArgInvalid", code |-> 409, arg |-> "", cause |-> cause]
Errorf(cause) == [kind |-> "error", code |-> 0, arg |-> "", cause |-> cause]

\* the multipart, form and JSON bodies are parsed before any field is looked at
PreParse(r) ==
    IF r.ctype = "multipart/form-data"
    THEN IF r.body = "malformed" THEN Errorf("failed to parse multipart form") ELSE ParseOk
    ELSE IF r.ctype = "application/x-www-form-urlencoded"
    THEN IF r.body = "malformed" THEN Errorf("failed to parse form") ELSE ParseOk
    ELSE IF r.ctype = "application/json" /\ r.body = "malformed"
    THEN ArgInvalid("json")
    ELSE ParseOk

\* the value Parse finds for a field: x.Request.URL.Query()[fieldName], of
\* which a field that is no string collection takes the first, and
\* x.Request.Header.Get(fieldName), which counts only when it is not empty
Lookup(r, fd) ==
    IF fd.parse = "query"
    THEN IF fd.key \in DOMAIN r.query
         THEN [found |-> TRUE, value |-> r.query[fd.key][1]]
         ELSE [found |-> FALSE, value |-> <<>>]
    ELSE LET headerValue == IF fd.key \in DOMAIN r.header THEN r.header[fd.key] ELSE <<>>
         IN [found |-> headerValue # <<>>, value |-> headerValue]

Bound(v) == [err |-> "", val |-> v]
\* A conversion failed. A nil pointer field has been given a fresh element
\* before the conversion is tried.
Failed(fd, cur, cause) ==
    [err |-> cause, val |-> IF fd.ptr /\ cur = Unset THEN Zero([fd EXCEPT !.ptr = FALSE]) ELSE cur]

\* mutant of setValue: a value outside the width of the field is refused
setValueInRange(fd, cur, value) ==
    IF fd.kind = "string" THEN Bound(StrV(value))
    ELSE IF fd.kind \in Ints
    THEN LET n == ParseInt(value)
         IN IF n.ok /\ SetInt(fd.kind, n.v) = n.v THEN Bound(IntV(n.v))
            ELSE Failed(fd, cur, "strconv.ParseInt")
    ELSE IF fd.kind \in Uints
    THEN LET n == ParseUint(value)
         IN IF n.ok /\ SetUint(fd.kind, n.v) = n.v THEN Bound(IntV(n.v))
            ELSE Failed(fd, cur, "strconv.ParseUint")
    ELSE IF fd.kind = "strings" THEN Bound(StrsV(Split(value)))
    ELSE IF fd.kind = "bool"
    THEN LET b == convertToBool(value)
         IN IF b.ok THEN Bound(BoolV(b.v)) ELSE Failed(fd, cur, "strconv.ParseBool")
    ELSE LET t == convertToTime(value)
         IN IF t.ok THEN Bound(t.v) ELSE Failed(fd, cur, "cannot parse time from string")

\* setValue for a value that is a string: the convertTo function of the field's
\* kind, then the Set function of reflect
setValue(fd, cur, value) ==
    IF fd.kind = "string" THEN Bound(StrV(value))
    ELSE IF fd.kind \in Ints
    THEN LET n == ParseInt(value)
         IN IF n.ok THEN Bound(IntV(SetInt(fd.kind, n.v)))
            ELSE Failed(fd, cur, "strconv.ParseInt")
    ELSE IF fd.kind \in Uints
    THEN LET n == ParseUint(value)
         IN IF n.ok THEN Bound(IntV(SetUint(fd.kind, n.v)))
            ELSE Failed(fd, cur, "strconv.ParseUint")
    ELSE IF fd.kind = "strings" THEN Bound(StrsV(Split(value)))
    ELSE IF fd.kind = "bool"
    THEN LET b == convertToBool(value)
         IN IF b.ok THEN Bound(BoolV(b.v)) ELSE Failed(fd, cur, "strconv.ParseBool")
    ELSE LET t == convertToTime(value)
         IN IF t.ok THEN Bound(t.v) ELSE Failed(fd, cur, "cannot parse time from string")

\* lines 455-523: strconv and time.Parse(time.RFC3339, ...) directly
setValueFromString(fd, cur, strValue) ==
    IF fd.kind = "string" THEN Bound(StrV(strValue))
    ELSE IF fd.kind \in Ints
    THEN LET n == ParseInt(strValue)
         IN IF n.ok THEN Bound(IntV(SetInt(fd.kind, n.v)))
            ELSE Failed(fd, cur, "cannot parse as int")
    ELSE IF fd.kind \in Uints
    THEN LET n == ParseUint(strValue)
         IN IF n.ok THEN Bound(IntV(SetUint(fd.kind, n.v)))
            ELSE Failed(fd, cur, "cannot parse as uint")
    ELSE IF fd.kind = "strings" THEN Bound(StrsV(Split(strValue)))
    ELSE IF fd.kind = "bool"
    THEN LET b == ParseBool(strValue)
         IN IF b.ok THEN Bound(BoolV(b.v)) ELSE Failed(fd, cur, "cannot parse as bool")
    ELSE LET t == TimeParse(RFC3339, strValue)
         IN IF t.ok THEN Bound(t.v) ELSE Failed(fd, cur, "cannot parse as time")

\* setValue for a value that is a []string: setSliceValue fills a []string
\* field with it (lines 339-347), and no convertTo function of a scalar kind
\* has a case for it
setValueStrings(fd, cur, strs) ==
    IF fd.kind = "strings" THEN Bound(StrsV(strs))
    ELSE Failed(fd, cur, "cannot convert []string")

isRequiredNever(fd) == FALSE
isRequired(fd) == ~fd.ptr /\ fd.def = <<>>
NotFoundAlways(found) == TRUE
NotFound(found) == ~found

setFieldValue(fd, cur, value, found) ==
    IF NotFound(found)
    THEN IF fd.def # <<>> THEN setValueFromString(fd, cur, fd.def)
         ELSE IF isRequired(fd) THEN [err |-> "required field missing", val |-> cur]
         ELSE Bound(cur)
    ELSE setValue(fd, cur, value)

InitParse ==
    /\ routes = <<NewRouter>>
    /\ setlog = <<>>
    /\ crashed = FALSE
    /\ req = NoReq
    /\ res = NoRes
    /\ IdleX
    /\ IdleM
    /\ ptarget \in Targets
    /\ preq \in RequestsFor(ptarget)
    /\ pvals = [i \in DOMAIN ptarget |-> Zero(ptarget[i])]
    /\ pidx = 0
    /\ presult = NoResult

\* Parse: the body does not parse for its Content-Type: return the error
ParseBodyFails ==
    /\ presult = NoResult /\ pidx = 0
    /\ PreParse(preq) # ParseOk
    /\ presult' = PreParse(preq)
    /\ UNCHANGED <<varsRoute, varsX, varsM, ptarget, preq, pvals, pidx>>

\* Parse: the body, if any, parses: go to the first field
ParseBody ==
    /\ presult = NoResult /\ pidx = 0
    /\ PreParse(preq) = ParseOk
    /\ pidx' = 1
    /\ UNCHANGED <<varsRoute, varsX, varsM, ptarget, preq, pvals, presult>>

\* Parse: one turn of the loop over the fields: look the value up and set the
\* field; return the first error
ParseField ==
    /\ presult = NoResult /\ pidx \in DOMAIN ptarget
    /\ LET fd == ptarget[pidx]
           l == Lookup(preq, fd)
           r == setFieldValue(fd, pvals[pidx], l.value, l.found)
       IN /\ pvals' = [pvals EXCEPT ![pidx] = r.val]
          /\ IF r.err # ""
             THEN presult' = ParserErr(fd.key, r.err) /\ UNCHANGED pidx
             ELSE pidx' = pidx + 1 /\ UNCHANGED presult
    /\ UNCHANGED <<varsRoute, varsX, varsM, ptarget, preq>>

\* Parse: every field is set: return nil
ParseReturn ==
    /\ presult = NoResult /\ pidx = Len(ptarget) + 1
    /\ presult' = ParseOk
    /\ UNCHANGED <<varsRoute, varsX, varsM, ptarget, preq, pvals, pidx>>

NextParse == ParseBodyFails \/ ParseBody \/ ParseField \/ ParseReturn

SpecParse == InitParse /\ [][NextParse]_vars

\* ------------------------------------------------------------ reading a Parse
Returned == presult # NoResult
FieldAt(fd) == CHOOSE i \in DOMAIN ptarget : ptarget[i] = fd
\* the request has a value for the field: a query key with its first value, a
\* header that is not empty
Supplied(fd) ==
    IF fd.parse = "query" THEN fd.key \in DOMAIN preq.query
    ELSE fd.key \in DOMAIN preq.header /\ preq.header[fd.key] # <<>>
RawOf(fd) == IF fd.parse = "query" THEN Head(preq.query[fd.key]) ELSE preq.header[fd.key]

\* a decimal integer: an optional sign and at least one digit, all digits
IsDecimalInteger(str) ==
    \E k \in 0..1 :
        /\ Len(str) > k
        /\ k = 1 => str[1] \in { "+", "-" }
        /\ \A i \in (k + 1)..Len(str) :
             str[i] \in { "0", "1", "2", "3", "4", "5", "6", "7", "8", "9" }
RECURSIVE Pow10(_)
Pow10(n) == IF n = 0 THEN 1 ELSE 10 * Pow10(n - 1)
RECURSIVE Magnitude(_, _)
Magnitude(str, i) ==
    IF i > Len(str) THEN 0
    ELSE IF str[i] \in { "+", "-" } THEN Magnitude(str, i + 1)
    ELSE DigitOf[str[i]] * Pow10(Len(str) - i) + Magnitude(str, i + 1)
DecimalValue(str) == IF str[1] = "-" THEN 0 - Magnitude(str, 1) ELSE Magnitude(str, 1)

\* ------------------------------------------------------------ C7
C7_Target == ptarget \in { <<FieldQ, FieldN>>, <<FieldN, FieldQ>> }
C7_Case == C7_Target /\ Returned /\ PreParse(preq) = ParseOk
C7_NBad == Supplied(FieldN) /\ ~IsDecimalInteger(RawOf(FieldN))
C7_Succeeds ==
    Supplied(FieldQ) /\ ~Supplied(FieldN) =>
        /\ presult = ParseOk
        /\ pvals[FieldAt(FieldN)] = Unset
        /\ pvals[FieldAt(FieldQ)] = StrV(RawOf(FieldQ))
C7_Missing == presult.kind = "parserErr" /\ presult.arg = "q"
              /\ presult.cause = "required field missing"
C7_Invalid == presult.kind = "parserErr" /\ presult.arg = "n"
              /\ presult.cause = "strconv.ParseInt"

\* C7 as stated: with a required query field q and an optional pointer-int
\* query field n, Parse succeeds with n nil when q is present and n absent,
\* fails with the missing-argument error naming q whenever q is absent, and
\* fails with the invalid-argument error naming n whenever n is present and
\* not a decimal integer.
C7_RequiredOptional ==
    C7_Case =>
        /\ C7_Succeeds
        /\ ~Supplied(FieldQ) => C7_Missing
        /\ C7_NBad => C7_Invalid

\* C7 (binder required/optional), amended: as stated, except that when q is
\* absent and n is present but not a decimal integer the error is the one of
\* whichever field the target declares first: Parse sets the fields in
\* declaration order and returns the first failure.
C7_RequiredOptionalInOrder ==
    C7_Case =>
        /\ C7_Succeeds
        /\ ~Supplied(FieldQ) /\ (~C7_NBad \/ FieldAt(FieldQ) < FieldAt(FieldN)) => C7_Missing
        /\ C7_NBad /\ (Supplied(FieldQ) \/ FieldAt(FieldN) < FieldAt(FieldQ)) => C7_Invalid

\* Parse has returned for ?q=hi&n=abc: invalid n, with q already bound.
C7_Witness ==
    /\ C7_Case /\ ptarget = <<FieldQ, FieldN>>
    /\ Supplied(FieldQ) /\ C7_NBad /\ RawOf(FieldN) = <<"a", "b", "c">>
    /\ C7_Invalid /\ pvals[1] = StrV(RawOf(FieldQ))

\* ------------------------------------------------------------ C8
\* the fields Parse has dealt with: set, or failed at
Reached == { i \in DOMAIN ptarget : i < pidx \/ (i = pidx /\ Returned) }
\* decoding a raw string for a field of the kind
Decodes(fd, str) == fd.kind = "string" \/ IsDecimalInteger(str)
Decoded(fd, str) == IF fd.kind = "string" THEN StrV(str) ELSE IntV(DecimalValue(str))

\* C8 (default application): a required field with a default literal d is
\* bound to decode(d) when the request has no value for its key and to
\* decode(v) when the request supplies v, never to the default then; where the
\* string in question does not decode, Parse fails naming the field.
C8_DefaultApplication ==
    \A i \in Reached :
        LET fd == ptarget[i]
            str == IF Supplied(fd) THEN RawOf(fd) ELSE fd.def
        IN ~fd.ptr /\ fd.def # <<>> =>
             IF Decodes(fd, str)
             THEN pvals[i] = Decoded(fd, str) /\ (Returned /\ i = pidx => presult = ParseOk)
             ELSE presult.kind = "parserErr" /\ presult.arg = fd.key /\ pidx = i

\* Parse has returned nil for a target with two defaulted int fields: f, absent
\* from the query, holds its default 10, and h, supplied as 7, holds 7.
C8_Witness ==
    /\ ptarget = <<FieldF, FieldH>> /\ presult = ParseOk
    /\ ~Supplied(FieldF) /\ pvals[1] = IntV(10)
    /\ Supplied(FieldH) /\ RawOf(FieldH) = <<"7">> /\ pvals[2] = IntV(7)

\* ------------------------------------------------------------ the other registrations
\* UseBefore / UseAfter accept the call shapes Set keeps and panic on anything else
UseOk(m) == m.k \in CallShapes

\* route.use: append to funcBefore or funcAfter, then syncCache
use(rt, r, m, before) ==
    syncCache(IF before THEN [rt EXCEPT ![r].funcBefore = Append(@, m)]
              ELSE [rt EXCEPT ![r].funcAfter = Append(@, m)], r)

Use(rt, r, m, before) ==
    IF UseOk(m) THEN GsResult(use(rt, r, m, before), r, FALSE)
    ELSE GsResult(rt, nil, TRUE)

\* delete(tmp.handlers, method)
Without(f, k) == [x \in DOMAIN f \ {k} |-> f[x]]

\* mutant of Clear: "*" takes the chains of the node only
ClearChains(rt, r, prefix, method) ==
    LET g == IF Len(rt[r].fragment) > 0 /\ rt[r].fragment[1] = "*"
             THEN GsResult(rt, r, FALSE)
             ELSE get_subrouter(rt, r, prefix)
        tmp == g.node
    IN IF g.panic THEN GsResult(g.rt, nil, TRUE)
       ELSE GsResult(
              syncCache(IF method = "*"
                        THEN [g.rt EXCEPT ![tmp].handlers = EmptyMap]
                        ELSE [g.rt EXCEPT ![tmp].handlers = Without(@, method)],
                        tmp),
              tmp, FALSE)

\* route.Clear: the node of the prefix (made if it is not there) loses the chain of
\* the method, or with "*" its chains, its literal children and its middleware
Clear(rt, r, prefix, method) ==
    LET g == IF Len(rt[r].fragment) > 0 /\ rt[r].fragment[1] = "*"
             THEN GsResult(rt, r, FALSE)
             ELSE get_subrouter(rt, r, prefix)
        tmp == g.node
    IN IF g.panic THEN GsResult(g.rt, nil, TRUE)
       ELSE GsResult(
              syncCache(IF method = "*"
                        THEN [g.rt EXCEPT ![tmp].handlers = EmptyMap,
                                          ![tmp].subRouters = EmptyMap,
                                          ![tmp].funcAfter = <<>>,
                                          ![tmp].funcBefore = <<>>]
                        ELSE [g.rt EXCEPT ![tmp].handlers = Without(@, method)],
                        tmp),
              tmp, FALSE)

\* route.Replace: sub takes the fragment, the parent and the place of r in the
\* parent; r must not be a root, and a literal r needs the parent's map
Replace(rt, r, sub) ==
    LET name == rt[r].fragment
        p == rt[r].parent
    IN IF p = nil \/ (name[1] \notin { "*", ":" } /\ rt[p].subRouters = EmptyMap)
       THEN GsResult(rt, nil, TRUE)
       ELSE LET linked ==
                  IF name[1] = "*" THEN [rt EXCEPT ![p].wildcard = sub]
                  ELSE IF name[1] = ":" THEN [rt EXCEPT ![p].colon = sub]
                  ELSE [rt EXCEPT ![p].subRouters = (name :> sub) @@ @]
            IN GsResult(
                 syncCache([linked EXCEPT ![sub].fragment = name, ![sub].parent = p], sub),
                 sub, FALSE)

\* route.Extend
Extend(rt, r, prefix, sub) ==
    LET g == get_subrouter(rt, r, prefix)
    IN IF g.panic THEN GsResult(g.rt, nil, TRUE) ELSE Replace(g.rt, g.node, sub)

\* route.SubRouter
SubRouter(rt, r, prefix) ==
    IF prefix = <<>> \/ prefix = <<"/">> THEN GsResult(rt, nil, TRUE)
    ELSE get_subrouter(rt, r, prefix)

\* ------------------------------------------------------------ the registration actions
\* Two routers are built by NewRouter, 1 and 2; the operations are called on them
\* and on the Router the last operation returned.
wildR == <<"*", "r">>
wildS == <<"*", "s">>
TreeUrls ==
    { <<"/">>, Url(<<user>>), Url(<< <<":", "i">> >>), Url(<<wildR>>), Url(<<wildS>>) }
SubUrls == { Url(<<user>>), Url(<<wildR>>) }
ClearUrls == { <<"/">>, Url(<<user>>) }

\* what the k-th operation is given: handlers with a description and an example
\* struct, handlers with a skip-before marker and an error-handler, a value of
\* no supported type
TreeArgs(k) ==
    { << Fn("FuncDescription", k), Fn("struct", k), Fn("FuncX2AnyErr", k) >>,
      << Fn("FuncX2None", k), Fn("FuncSkipBefore", k), Fn("FuncErr", k) >>,
      << Fn("int", k) >> }
Middlewares(k) ==
    { Fn("FuncX2None", k), Fn("FuncSkipBefore", k), Fn("FuncDescription", k) }

Handles ==
    { 1, 2 } \cup (IF setlog # <<>> /\ setlog[Len(setlog)].node # nil
                   THEN { setlog[Len(setlog)].node } ELSE {})

InitTree ==
    /\ routes = <<NewRouter, NewRouter>>
    /\ setlog = <<>>
    /\ crashed = FALSE
    /\ req = NoReq
    /\ res = NoRes
    /\ IdleX
    /\ IdleP
    /\ IdleM

CanRegister == ~crashed /\ Len(setlog) < MaxOps

\* the entry of the log for an operation on r: what it was given, the Router it
\* returned, and the wildcard and the named child r had when it was called
Op(name, r, url, method, args, s) ==
    [op |-> name, recv |-> r, url |-> url, method |-> method, args |-> args,
     node |-> s.node, wildBefore |-> routes[r].wildcard, colonBefore |-> routes[r].colon,
     recvWild |-> Len(routes[r].fragment) > 0 /\ routes[r].fragment[1] = "*"]

Registered2(s, e) ==
    /\ routes' = s.rt
    /\ crashed' = s.panic
    /\ setlog' = Append(setlog, e)
    /\ UNCHANGED <<req, res, varsX, varsP, varsM>>

TreeSet ==
    /\ CanRegister
    /\ \E r \in Handles, url \in TreeUrls, hs \in TreeArgs(Len(setlog) + 1) :
         LET s == Set(routes, r, url, "GET", hs)
         IN Registered2(s, Op("Set", r, url, "GET", hs, s))

TreeUse ==
    /\ CanRegister
    /\ \E r \in Handles, m \in Middlewares(Len(setlog) + 1), before \in BOOLEAN :
         LET s == Use(routes, r, m, before)
         IN Registered2(s, Op(IF before THEN "UseBefore" ELSE "UseAfter", r, <<>>, "", <<m>>, s))

TreeClear ==
    /\ CanRegister
    /\ \E r \in Handles, url \in ClearUrls, method \in { "*", "GET" } :
         LET s == Clear(routes, r, url, method)
         IN Registered2(s, Op("Clear", r, url, method, <<>>, [s EXCEPT !.node = nil]))

TreeSubRouter ==
    /\ CanRegister
    /\ \E r \in Handles, url \in SubUrls :
         LET s == SubRouter(routes, r, url)
         IN Registered2(s, Op("SubRouter", r, url, "", <<>>, s))

\* router 2 is mounted once, into the tree of router 1
Mountable(r) == routes[2].parent = nil /\ 2 \notin Subtree(routes, r) /\ r \notin Subtree(routes, 2)

TreeExtend ==
    /\ CanRegister
    /\ \E r \in Handles, url \in SubUrls :
         /\ Mountable(r)
         /\ LET s == Extend(routes, r, url, 2)
            IN Registered2(s, Op("Extend", r, url, "", <<>>, s))

TreeReplace ==
    /\ CanRegister
    /\ \E r \in Handles :
         /\ Mountable(r)
         /\ LET s == Replace(routes, r, 2)
            IN Registered2(s, Op("Replace", r, <<>>, "", <<>>, s))

NextTree ==
    TreeSet \/ TreeUse \/ TreeClear \/ TreeSubRouter \/ TreeExtend \/ TreeReplace

SpecTree == InitTree /\ [][NextTree]_vars

\* ------------------------------------------------------------ the wildcard node
WildUrls == { Url(<<wildR>>), Url(<<wildS>>) }

\* the operations that registered a wildcard pattern, with arguments Set accepts,
\* from a Router that is no wildcard node and already had a wildcard child
WildAgain ==
    { i \in DOMAIN setlog :
        /\ setlog[i].op \in { "Set", "SubRouter" }
        /\ setlog[i].url \in WildUrls
        /\ ~setlog[i].recvWild
        /\ setlog[i].wildBefore # nil
        /\ ~Unsupported(setlog[i].args) }

WildcardIsLeaf ==
    \A n \in DOMAIN routes : IsWildcard(routes[n].fragment) => Children(routes, n) = {}

\* C11: after any sequence of registration operations no wildcard node has a child,
\* and registering a wildcard pattern where a wildcard child exists, under the same
\* or another name, completes and returns that child.
C11_WildcardLeaf ==
    /\ WildcardIsLeaf
    /\ \A i \in WildAgain : setlog[i].node = setlog[i].wildBefore

\* ------------------------------------------------------------ the composed chain
\* the routes from the root down to n, both included
RECURSIVE Lineage(_)
Lineage(n) == IF n = nil THEN <<>> ELSE Append(Lineage(routes[n].parent), n)

Reverse(s) == [i \in DOMAIN s |-> s[Len(s) + 1 - i]]

\* the routes in the tree of a router
Attached ==
    UNION { Subtree(routes, r) : r \in { x \in DOMAIN routes : routes[x].parent = nil } }

BeforeDown(n) == Flatten([i \in DOMAIN Lineage(n) |-> routes[Lineage(n)[i]].funcBefore])
AfterDown(n) == Flatten([i \in DOMAIN Lineage(n) |-> routes[Lineage(n)[i]].funcAfter])
AfterUp(n) ==
    Flatten([i \in DOMAIN Lineage(n) |-> routes[Reverse(Lineage(n))[i]].funcAfter])

\* a chain without everything up to and including its last skip-before marker
Truncated(chain) == From(chain, LastSkip(chain))

\* the statement as written, read with the truncation at a skip-before marker:
\* the after-middleware in root-to-node order
C12_RootToNodeAfter ==
    \A n \in Attached : \A k \in DOMAIN routes[n].handlers :
        CacheOf(routes[n], k) =
            Truncated(BeforeDown(n) \o routes[n].handlers[k] \o AfterDown(n))

\* C12 (amended): for every node in the tree of a router and every method it has
\* handlers for, the cached chain is the before-middleware of the root, then of each
\* ancestor down to the node, then the node's handlers for the method, then the
\* after-middleware of the node, then of each ancestor up to the root, without
\* everything up to and including the last skip-before marker.
C12_NodeToRootAfter ==
    \A n \in Attached :
        /\ DOMAIN routes[n].handlersCache = DOMAIN routes[n].handlers
        /\ \A k \in DOMAIN routes[n].handlers :
              CacheOf(routes[n], k) =
                  Truncated(BeforeDown(n) \o routes[n].handlers[k] \o AfterUp(n))

\* a node with handlers and after-middleware of its own, below a router with
\* after-middleware, whose cached chain holds all of them
C12_Witness ==
    \E n \in Attached :
        /\ routes[n].parent # nil
        /\ routes[n].funcAfter # <<>>
        /\ routes[routes[n].parent].funcAfter # <<>>
        /\ "GET" \in DOMAIN routes[n].handlers
        /\ Len(CacheOf(routes[n], "GET")) =
              Len(routes[n].handlers["GET"]) + Len(AfterUp(n)) + Len(BeforeDown(n))
        /\ routes[n].handlers["GET"] # <<>>

\* ------------------------------------------------------------ classification
\* the cases of the type switch of Next that call the entry or pass over it as an
\* error-handler (lines 80-105)
NextCases == CallShapes \ { "FuncSkipBefore" }

\* C13: after any sequence of registration operations, every entry of every cached
\* chain has one of the call shapes Next dispatches on: no description, no example
\* struct, no skip-before marker, no value of another type.
C13_Classified ==
    \A n \in DOMAIN routes : \A k \in DOMAIN routes[n].handlersCache :
        \A i \in DOMAIN routes[n].handlersCache[k] :
            routes[n].handlersCache[k][i].k \in NextCases

\* Set was given a description and an example struct, a chain holds a skip-before
\* marker, and both nodes have a cached chain with entries
C13_Witness ==
    /\ \E i \in DOMAIN setlog :
          /\ setlog[i].op = "Set"
          /\ setlog[i].node # nil
          /\ \E j \in DOMAIN setlog[i].args : setlog[i].args[j].k = "FuncDescription"
          /\ CacheOf(routes[setlog[i].node], "GET") # <<>>
    /\ \E n \in DOMAIN routes :
          /\ "GET" \in DOMAIN routes[n].handlers
          /\ \E j \in DOMAIN routes[n].handlers["GET"] :
                routes[n].handlers["GET"][j].k = "FuncSkipBefore"
          /\ CacheOf(routes[n], "GET") # <<>>

\* ------------------------------------------------------------ panics
\* the runs of handleErr started by the deferred function of a Next
RecoverScans == { i \in DOMAIN scans : scans[i].by = "recover" }

\* C15: a panic raised by a chain entry, an ordinary handler or an error-handler
\* of any scan, never leaves the outermost Next; it becomes the error of a scan
\* that starts at the entry behind the panicking one, and the panicking entry is
\* not invoked again.
C15_PanicContained ==
    /\ xstate # "escaped"
    /\ \A i \in RecoverScans :
         /\ scans[i].start = scans[i].first[2]
         /\ Cardinality({ c \in DOMAIN calls : calls[c].pos = scans[i].first[2] }) = 1

\* ------------------------------------------------------------ Skip
\* the invocations of a handler that calls Skip once and makes no other call on x
SkipOnce ==
    { a \in DOMAIN calls :
        /\ calls[a].as = "handler"
        /\ Len(xchain[calls[a].pos].ops) = 1
        /\ xchain[calls[a].pos].ops[1] \in SkipCalls }

\* the n of the call: Skip() stands for Skip(1)
SkipN(a) ==
    LET counts == SkipArgs(xchain[calls[a].pos].ops[1])
    IN IF counts = <<>> THEN 1 ELSE counts[1]

\* the invocation a of the handler at i skipped n entries: nothing at or before
\* i+n is invoked afterwards, and once the request is over a callable entry at
\* i+n+1 has been invoked if the handler returned no error
SkippedOver(a, n) ==
    LET i == calls[a].pos
    IN /\ \A b \in DOMAIN calls : b > a => calls[b].pos > i + n
       /\ ( /\ xstate = "returned"
            /\ xchain[i].out = "ok"
            /\ i + n + 1 <= Len(xchain)
            /\ IsCallable(xchain[i + n + 1]) )
          => \E b \in DOMAIN calls :
                b > a /\ calls[b].pos = i + n + 1 /\ calls[b].as = "handler"

\* C18: when the handler at position i calls Skip(n) once, the entries at i+1 ..
\* i+n are not invoked and execution goes on with the entry at i+n+1, or ends when
\* that is past the chain; Skip() is Skip(1) and Skip(0) skips nothing.
C18_Skip ==
    \A a \in SkipOnce : SkippedOver(a, SkipN(a))

\* C18 for the counts that int holds: Skip(), Skip(0), Skip(2)
C18_SkipInRange ==
    \A a \in SkipOnce : SkipN(a) < 2^(WordBits - 1) => SkippedOver(a, SkipN(a))

\* a request is over in which the first of three handlers called Skip() and the
\* third was invoked next, or called Skip(0) and the second was invoked next
C18_Witness ==
    /\ xstate = "returned" /\ Len(xchain) = 3
    /\ \/ /\ xchain[1].ops = <<"Skip">> /\ xchain[1].out = "ok"
          /\ Len(calls) = 2 /\ calls[1].pos = 1 /\ calls[2].pos = 3
       \/ /\ xchain[1].ops = <<"Skip0">>
          /\ Len(calls) >= 2 /\ calls[1].pos = 1 /\ calls[2].pos = 2

\* ------------------------------------------------------------ requests on one pooled context
\* A router with the chain c on "/u" and on "/:i", and, with catch, an
\* error-handler that handles every error as after-middleware of the root.
CatchAll == H("FuncErr", <<>>, "nil")
TreeOf(c, catch) ==
    LET r0 == <<NewRouter>>
        r1 == IF catch THEN Use(r0, 1, CatchAll, FALSE).rt ELSE r0
        r2 == Set(r1, 1, Url(<<user>>), "GET", c).rt
    IN Set(r2, 1, Url(<< <<":", "i">> >>), "GET", c).rt

ServeEntries ==
    { H("FuncX2AnyErr", <<>>, "ok"), H("FuncX2AnyErr", <<"Stop">>, "ok"),
      H("FuncX2AnyErr", <<"Skip2">>, "err"), H("FuncX2AnyErr", <<>>, "err"),
      H("FuncX2AnyErr", <<>>, "panicVal"), H("FuncErr", <<>>, "panicVal"),
      H("FuncX2AnyErr", <<"Next">>, "ok"), H("FuncErr", <<>>, "pass") }
ServeChains == SeqsOf(ServeEntries, 1, 2)
ServePaths ==
    { Url(<<user>>), Url(<< <<"v">> >>), Url(<< <<"w">> >>), Url(<< user, <<"v">> >>) }

\* every request is served with the one context the pool holds
InitServe ==
    /\ \E c \in ServeChains, catch \in BOOLEAN : routes = TreeOf(c, catch)
    /\ setlog = <<>>
    /\ crashed = FALSE
    /\ req = NoReq
    /\ res = NoRes
    /\ IdleX
    /\ IdleP
    /\ IdleM

\* what ServeHTTP found in the context it acquired
Acquired(path, m) ==
    [path |-> path, m |-> m, fid |-> xfid, ps |-> res.ps, fcs |-> xfcs,
     endfid |-> 0, endps |-> <<>>]

\* route.ServeHTTP up to the call of Next: acquire, match on the path without its
\* leading '/', and with a node and a chain x.fcs = fcs
ServePooled ==
    /\ xstate \in { "idle", "released" }
    /\ Len(setlog) < MaxReqs
    /\ \E path \in ServePaths, m \in ReqMethods :
         LET r == match(routes, 1, From(path, 1), m, res.ps)
             found == r.node # nil /\ Len(r.fcs) > 0
         IN /\ req' = [path |-> path, m |-> m, served |-> TRUE]
            /\ res' = r
            /\ setlog' = Append(setlog, Acquired(path, m))
            /\ xfcs' = IF found THEN r.fcs ELSE xfcs
            /\ xchain' = IF found THEN r.fcs ELSE <<>>
            /\ stack' = IF found THEN <<NextFrame(NilV)>> ELSE <<>>
            /\ xstate' = IF found THEN "running" ELSE "returned"
    /\ calls' = <<>>
    /\ scans' = <<>>
    /\ stopped' = FALSE
    /\ panicking' = NoPanic
    /\ UNCHANGED <<routes, crashed, xfid, varsP, varsM>>

NextServe ==
    \/ ServePooled
    \/ NextReturn \/ NextInvoke \/ NextPassOver \/ NextOnErr \/ NextRecurse
    \/ FnStop \/ FnSkip \/ FnNext \/ FnReturn \/ FnPanic
    \/ Recover
    \/ ScanExhausted \/ ScanSkip \/ ScanInvoke \/ ScanHandled \/ ScanContinue
    \/ release

SpecServe == InitServe /\ [][NextServe]_vars

\* ------------------------------------------------------------ the pooled context
\* what match gives for the request in a context that was never used
Fresh == match(routes, 1, From(req.path, 1), req.m, <<>>)

\* C14: every request served by ServeHTTP, whatever the requests before it did
\* (Stop, Skip, errors, panics), starts with the cursor at 0, no parameters and
\* no chain in its context, and runs the chain and the parameters of its own match.
C14_PooledReset ==
    /\ \A i \in DOMAIN setlog :
          setlog[i].fid = 0 /\ setlog[i].ps = <<>> /\ setlog[i].fcs = <<>>
    /\ req.served =>
          /\ res.ps = Fresh.ps
          /\ xstate = "running" => xfcs = Fresh.fcs /\ xfcs = res.fcs
    /\ xstate = "released" => xfid = 0 /\ res.ps = <<>> /\ xfcs = <<>>

\* the second request binds its own value to :i and runs its chain, after a first
\* request that bound another value and ended with the cursor moved by Stop
C14_Witness ==
    /\ Len(setlog) = 2
    /\ setlog[1].endfid = StopFid
    /\ setlog[1].endps = << <<<<"i">>, <<"v">>>> >>
    /\ xstate = "running"
    /\ res.ps = << <<<<"i">>, <<"w">>>> >>
    /\ calls # <<>>

\* ------------------------------------------------------------ the unmatched request
Unmatched == req.served /\ (res.node = nil \/ Len(res.fcs) = 0)

\* the root has an error-handler for every error among its after-middleware
HasCatchAll == \E i \in DOMAIN routes[1].funcAfter : routes[1].funcAfter[i] = CatchAll

\* C16: a request that matches no route is an error handed to the error-recovery
\* scan: with a catch-all error-handler registered on the root, that error-handler
\* has been invoked by the time ServeHTTP is done with the request.
C16_UnmatchedScanned ==
    (xstate = "returned" /\ Unmatched /\ HasCatchAll)
        => \E c \in DOMAIN calls : calls[c].as = "errhandler"

\* ------------------------------------------------------------ the default tag and pointers
\* C17: a default tag takes effect on non-pointer fields only: a pointer field
\* the request has no value for is nil after Parse, with or without a default
\* tag, and Parse does not fail at it.
C17_DefaultScope ==
    \A i \in Reached :
        ptarget[i].ptr /\ ~Supplied(ptarget[i]) =>
            /\ pvals[i] = Unset
            /\ Returned /\ i = pidx => presult = ParseOk

\* ------------------------------------------------------------ the request limiter
\* time.Time{}: the clock starts behind it
ZeroTime == 0

\* LimiterConfig: Window and MinInterval in ticks of the clock
Configs == [Window : 0..2, MaxRequests : 0..2, MinInterval : 0..2]
Keys == { "a", "b" }
Datas == { "d1", "d2" }

NilData == "nil"
NilErr == "nil"
ErrTooManyRequests == "ErrTooManyRequests"

\* &ClientRecord{}
NoRecord == [Requests |-> <<>>, LastRequest |-> ZeroTime]
RecordOf(cl, key) == IF key \in DOMAIN cl THEN cl[key] ELSE NoRecord

\* lines 72-77: the requests not older than the window
Valid(reqs, t, window) == SelectSeq(reqs, LAMBDA r : t - r <= window)

\* mutant of TooSoon: a request one tick early gets through
TooSoonButOne(record, t, cfg) ==
    /\ cfg.MinInterval > 0 /\ record.LastRequest # ZeroTime
    /\ t - record.LastRequest < cfg.MinInterval - 1

\* lines 80-84
TooSoon(record, t, cfg) ==
    /\ cfg.MinInterval > 0 /\ record.LastRequest # ZeroTime
    /\ t - record.LastRequest < cfg.MinInterval

\* mutant of AboveMax: one request more gets through
AboveMaxLate(valid, cfg) == cfg.MaxRequests > 0 /\ Len(valid) > cfg.MaxRequests
\* line 87
AboveMax(valid, cfg) == cfg.MaxRequests > 0 /\ Len(valid) >= cfg.MaxRequests

\* isAllowed at time t: the answer and the clients map it leaves
isAllowed(cl, key, t, cfg) ==
    LET record == RecordOf(cl, key)
        validRequests == Valid(record.Requests, t, cfg.Window)
    IN IF TooSoon(record, t, cfg) \/ AboveMax(validRequests, cfg)
       THEN [ok |-> FALSE, clients |-> (key :> record) @@ cl]
       ELSE [ok |-> TRUE,
             clients |-> (key :> [Requests |-> Append(validRequests, t),
                                  LastRequest |-> t]) @@ cl]

\* cleanExpired at time t
cleanExpired(cl, t, cfg) ==
    LET kept == { k \in DOMAIN cl : Valid(cl[k].Requests, t, cfg.Window) # <<>> }
    IN [k \in kept |-> [cl[k] EXCEPT !.Requests = Valid(cl[k].Requests, t, cfg.Window)]]

InitLimit ==
    /\ routes = <<NewRouter>>
    /\ setlog = <<>>
    /\ crashed = FALSE
    /\ req = NoReq
    /\ res = NoRes
    /\ IdleX
    /\ IdleP
    /\ IdleH
    /\ now = 1
    /\ config \in Configs
    /\ clients = <<>>
    /\ limlog = <<>>
    /\ cache = <<>> /\ inflight = <<>> /\ cachelog = <<>>

\* AdvancedRequestLimiter.Limit(x, data) for a request with the key: isAllowed under
\* the lock, with one reading of the clock
Limit ==
    /\ Len(limlog) < MaxLimits
    /\ \E key \in Keys, data \in Datas :
         LET a == isAllowed(clients, key, now, config)
         IN /\ clients' = a.clients
            /\ limlog' = Append(limlog,
                 [key |-> key, at |-> now, data |-> data, ok |-> a.ok,
                  out |-> IF a.ok THEN data ELSE NilData,
                  err |-> IF a.ok THEN NilErr ELSE ErrTooManyRequests,
                  before |-> RecordOf(clients, key), after |-> RecordOf(a.clients, key)])
    /\ UNCHANGED <<varsRoute, varsX, varsP, varsH, now, config, cache, inflight, cachelog>>

\* the cleaner goroutine
CleanExpired ==
    /\ clients' = cleanExpired(clients, now, config)
    /\ clients' # clients
    /\ UNCHANGED <<varsRoute, varsX, varsP, varsH, now, config, limlog, cache, inflight, cachelog>>

\* time passes
Tick ==
    /\ now < MaxTime
    /\ now' = now + 1
    /\ UNCHANGED <<varsRoute, varsX, varsP, varsH, config, clients, limlog, cache, inflight, cachelog>>

NextLimit == Limit \/ CleanExpired \/ Tick

SpecLimit == InitLimit /\ [][NextLimit]_vars

\* the allowed requests with the key of request i, up to i, not older than the
\* window when i came
AllowedInWindow(i) ==
    { j \in 1..i :
        /\ limlog[j].key = limlog[i].key /\ limlog[j].ok
        /\ limlog[i].at - limlog[j].at <= config.Window }

\* C19: with MaxRequests > 0, an allowed request is at most the MaxRequests-th
\* allowed request of its key within the window before it; a request that comes
\* when MaxRequests allowed requests are in the window gets the too-many-requests
\* error and no data and leaves the record of its key as it was; an allowed
\* request gets its data back with a nil error.
C19_Threshold ==
    \A i \in DOMAIN limlog :
        LET e == limlog[i]
        IN /\ (e.ok /\ config.MaxRequests > 0) =>
                 Cardinality(AllowedInWindow(i)) <= config.MaxRequests
           /\ (config.MaxRequests > 0
                 /\ Cardinality(AllowedInWindow(i) \ {i}) >= config.MaxRequests) => ~e.ok
           /\ ~e.ok => e.err = ErrTooManyRequests /\ e.out = NilData /\ e.after = e.before
           /\ e.ok => e.out = e.data /\ e.err = NilErr

\* two requests of a key allowed, a third one refused within the window, a fourth
\* one allowed once the window has passed
C19_Witness ==
    /\ config.MaxRequests = 2 /\ config.MinInterval = 0 /\ Len(limlog) = 4
    /\ \A i \in 1..4 : limlog[i].key = "a"
    /\ limlog[1].ok /\ limlog[2].ok /\ ~limlog[3].ok /\ limlog[4].ok
    /\ limlog[3].at - limlog[1].at <= config.Window

\* ------------------------------------------------------------ the cache middleware
\* 10 * time.Second, in ticks of the clock
TenSeconds == 2

\* NewCacheMiddleware(fc, expiration)
NewCacheMiddleware(expiration) ==
    [expiration |-> IF expiration <= 0 THEN TenSeconds ELSE expiration]

Goroutines == { 1, 2 }
Methods == { "GET", "POST" }
\* x.Request.URL.String()
Urls == { "/data", "/data?p=1" }

\* item, exists := m.cache[key]
NoItem == [exists |-> FALSE, data |-> NilData, expires |-> ZeroTime]
ItemOf(c, key) ==
    IF key \in DOMAIN c
    THEN [exists |-> TRUE, data |-> c[key].data, expires |-> c[key].expires]
    ELSE NoItem

\* mutant of Before: the instant of expiry counts as before it
NotAfter(t, u) == t <= u
\* t.Before(u)
Before(t, u) == t < u

\* line 54
Hit(item, t) == item.exists /\ Before(t, item.expires)

\* CacheMiddleware.Cleanup at time t
Cleanup(c, t) == [k \in { x \in DOMAIN c : ~(t > c[x].expires) } |-> c[k]]

\* a goroutine that is not in Handler
Out == [pc |-> "out", method |-> "", url |-> "", item |-> NoItem, checked |-> 0,
        data |-> NilData, read |-> FALSE]

InitCache ==
    /\ routes = <<NewRouter>>
    /\ setlog = <<>>
    /\ crashed = FALSE
    /\ req = NoReq
    /\ res = NoRes
    /\ IdleX
    /\ IdleP
    /\ IdleH
    /\ now = 1
    /\ \E expiration \in 0..1 : config = NewCacheMiddleware(expiration)
    /\ clients = <<>> /\ limlog = <<>>
    /\ cache = <<>>
    /\ inflight = [g \in Goroutines |-> Out]
    /\ cachelog = <<>>

\* the calls of Handler that have returned, the goroutines inside Handler, and the
\* invocations of the wrapped handler
Answered == { i \in DOMAIN cachelog : cachelog[i].ev = "return" }
Inside == { g \in Goroutines : inflight[g].pc # "out" }
Invoked == { i \in DOMAIN cachelog : cachelog[i].ev = "invoke" }

Event(ev, g, h, data, err, hit) ==
    [ev |-> ev, g |-> g, method |-> h.method, url |-> h.url, data |-> data, err |-> err,
     at |-> now, item |-> h.item, checked |-> h.checked, read |-> h.read, hit |-> hit]

\* lines 40-51: a request that is no GET goes to the wrapped handler; for a GET the
\* item of the URL is read under the read lock
HandlerBegin(g) ==
    /\ inflight[g].pc = "out"
    /\ Cardinality(Answered) + Cardinality(Inside) < MaxHandles
    /\ \E method \in Methods, url \in Urls :
         LET h == IF method # "GET"
                  THEN [Out EXCEPT !.pc = "call", !.method = method, !.url = url]
                  ELSE [Out EXCEPT !.pc = "check", !.method = method, !.url = url,
                                   !.item = ItemOf(cache, url), !.read = TRUE]
         IN inflight' = [inflight EXCEPT ![g] = h]
    /\ UNCHANGED <<varsRoute, varsX, varsP, varsH, now, config, clients, limlog, cache, cachelog>>

\* lines 54-56: the item is there and the clock is before its expiry: return it
HandlerCheck(g) ==
    /\ inflight[g].pc = "check"
    /\ LET h == [inflight[g] EXCEPT !.checked = now]
       IN IF Hit(h.item, now)
          THEN /\ inflight' = [inflight EXCEPT ![g] = Out]
               /\ cachelog' = Append(cachelog, Event("return", g, h, h.item.data, NilErr, TRUE))
          ELSE /\ inflight' = [inflight EXCEPT ![g] = [h EXCEPT !.pc = "call"]]
               /\ UNCHANGED cachelog
    /\ UNCHANGED <<varsRoute, varsX, varsP, varsH, now, config, clients, limlog, cache>>

\* lines 42 and 57-60: the wrapped handler runs and returns a value, alone or with
\* an error; only a GET without an error goes on to store it
HandlerCall(g) ==
    /\ inflight[g].pc = "call"
    /\ \E failed \in BOOLEAN :
         LET h == inflight[g]
             data == Cardinality(Invoked) + 1
             err == IF failed THEN "err" ELSE NilErr
             invoke == Event("invoke", g, h, data, err, FALSE)
         IN IF h.method # "GET"
            THEN /\ inflight' = [inflight EXCEPT ![g] = Out]
                 /\ cachelog' = cachelog \o <<invoke, Event("return", g, h, data, err, FALSE)>>
            ELSE IF failed
            THEN /\ inflight' = [inflight EXCEPT ![g] = Out]
                 /\ cachelog' = cachelog \o <<invoke, Event("return", g, h, NilData, err, FALSE)>>
            ELSE /\ inflight' = [inflight EXCEPT ![g] = [h EXCEPT !.pc = "store", !.data = data]]
                 /\ cachelog' = Append(cachelog, invoke)
    /\ UNCHANGED <<varsRoute, varsX, varsP, varsH, now, config, clients, limlog, cache>>

\* lines 62-69: the value is stored under the lock with an expiry counted from now
HandlerStore(g) ==
    /\ inflight[g].pc = "store"
    /\ LET h == inflight[g]
       IN /\ cache' = (h.url :> [data |-> h.data, expires |-> now + config.expiration]) @@ cache
          /\ cachelog' = cachelog \o << Event("store", g, h, h.data, NilErr, FALSE),
                                        Event("return", g, h, h.data, NilErr, FALSE) >>
    /\ inflight' = [inflight EXCEPT ![g] = Out]
    /\ UNCHANGED <<varsRoute, varsX, varsP, varsH, now, config, clients, limlog>>

\* the cleanup goroutine
CacheCleanup ==
    /\ cache' = Cleanup(cache, now)
    /\ cache' # cache
    /\ UNCHANGED <<varsRoute, varsX, varsP, varsH, now, config, clients, limlog, inflight, cachelog>>

NextCache ==
    \/ \E g \in Goroutines :
          HandlerBegin(g) \/ HandlerCheck(g) \/ HandlerCall(g) \/ HandlerStore(g)
    \/ CacheCleanup
    \/ Tick

SpecCache == InitCache /\ [][NextCache]_vars

Stored == { i \in DOMAIN cachelog : cachelog[i].ev = "store" }
\* the invocation of the wrapped handler that produced the value data
InvokedAs(data) == { i \in Invoked : cachelog[i].data = data }
\* the wrapped handler ran for the call of Handler that returned at position i
RanFor(i) ==
    \E j \in Invoked : /\ j < i
                       /\ cachelog[j].g = cachelog[i].g
                       /\ \A k \in Answered : ~(j < k /\ k < i /\ cachelog[k].g = cachelog[i].g)

\* C20: a GET whose URL has a stored entry that has not expired when it is looked at
\* is answered with the stored value and the wrapped handler does not run; a stored
\* value is never returned at or after its expiry; a request that is no GET always
\* runs the wrapped handler and neither reads nor writes the cache; a value that
\* the wrapped handler returned together with an error is never stored.
C20_Cache ==
    /\ \A i \in Answered :
         LET e == cachelog[i]
         IN /\ (e.method = "GET" /\ e.item.exists /\ e.checked < e.item.expires)
                  => (e.hit /\ e.data = e.item.data /\ e.err = NilErr /\ ~RanFor(i))
            /\ e.hit => (e.method = "GET" /\ e.item.exists /\ e.at < e.item.expires
                         /\ e.data = e.item.data /\ ~RanFor(i))
            /\ ~RanFor(i) => e.hit
            /\ e.method # "GET" => (RanFor(i) /\ ~e.read /\ ~e.hit)
    /\ \A i \in Stored :
         /\ cachelog[i].method = "GET"
         /\ \E j \in InvokedAs(cachelog[i].data) : j < i /\ cachelog[j].err = NilErr
    /\ \A url \in DOMAIN cache :
         /\ \E i \in Stored : /\ cachelog[i].url = url
                              /\ cachelog[i].data = cache[url].data
                              /\ cache[url].expires = cachelog[i].at + config.expiration
         /\ \A j \in InvokedAs(cache[url].data) : cachelog[j].err = NilErr
    /\ \A g \in Goroutines : inflight[g].method # "GET" => ~inflight[g].read

\* a stored value was returned later on, before its expiry, and a GET that looked
\* at the entry at the instant of its expiry ran the wrapped handler again
C20_Witness ==
    /\ \E i \in Stored, j, k \in Answered :
         /\ i < j /\ j < k
         /\ cachelog[j].hit /\ cachelog[j].data = cachelog[i].data
         /\ cachelog[j].at > cachelog[i].at
         /\ cachelog[k].method = "GET" /\ cachelog[k].url = cachelog[i].url
         /\ cachelog[k].item.exists /\ cachelog[k].checked = cachelog[k].item.expires
         /\ ~cachelog[k].hit /\ RanFor(k)
    /\ cache # <<>>

\* ------------------------------------------------------------ the CORS middleware
\* Header values and hosts are sequences of tokens: "http", "://", "a", ":", "81".
\* strings.Index(s, t), counted from 1, 0 when t is not in s
IndexOf(s, t) ==
    IF \E i \in DOMAIN s : s[i] = t
    THEN CHOOSE i \in DOMAIN s : s[i] = t /\ \A j \in 1..(i - 1) : s[j] # t
    ELSE 0

\* url.Parse(origin): a value that starts with a colon has no scheme and fails; the
\* scheme and the host of scheme://host; neither for a value such as "null"
urlParse(origin) ==
    IF origin[1] = ":" THEN [ok |-> FALSE, Scheme |-> "", Host |-> <<>>]
    ELSE IF Len(origin) >= 2 /\ origin[2] = "://"
    THEN [ok |-> TRUE, Scheme |-> origin[1], Host |-> SubSeq(origin, 3, Len(origin))]
    ELSE [ok |-> TRUE, Scheme |-> "", Host |-> <<>>]

getHost(host) ==
    IF IndexOf(host, ":") # 0 THEN SubSeq(host, 1, IndexOf(host, ":") - 1) ELSE host

\* mutant of getPort: no default port
getPortAsWritten(host, scheme) ==
    IF IndexOf(host, ":") # 0 THEN SubSeq(host, IndexOf(host, ":") + 1, Len(host)) ELSE <<>>
getPort(host, scheme) ==
    IF IndexOf(host, ":") # 0 THEN SubSeq(host, IndexOf(host, ":") + 1, Len(host))
    ELSE IF scheme = "https" THEN <<"443">> ELSE <<"80">>

IsCrossOrigin(r) ==
    IF r.origin = <<>> THEN FALSE
    ELSE LET originURL == urlParse(r.origin)
             scheme == IF r.tls \/ r.xfp = <<"https">> THEN "https" ELSE "http"
         IN IF ~originURL.ok THEN FALSE
            ELSE \/ scheme # originURL.Scheme
                 \/ getHost(r.host) # getHost(originURL.Host)
                 \/ getPort(r.host, scheme) # getPort(originURL.Host, originURL.Scheme)

\* lines 75 and 90
IsPreflight(r) == r.method = "OPTIONS" /\ r.acrm # <<>>

\* x.Header().Set for each pair
SetAll(h, pairs) == pairs @@ h

AllowAny(r, h) ==
    IF IsCrossOrigin(r)
    THEN [header |-> SetAll(h, [n \in { "Allow-Origin" } |-> r.origin]
                               @@ [n \in { "Allow-Credentials", "Allow-Methods", "Allow-Headers",
                                           "Expose-Headers" } |-> <<"any">>]),
          stop |-> IsPreflight(r)]
    ELSE [header |-> h, stop |-> FALSE]

CorsAllow(domains, r, h) ==
    IF IsCrossOrigin(r) /\ r.origin \in Range(domains)
    THEN [header |-> SetAll(h, [n \in { "Allow-Origin" } |-> r.origin]
                               @@ [n \in { "Allow-Credentials", "Allow-Methods",
                                           "Allow-Headers" } |-> <<"listed">>]),
          stop |-> IsPreflight(r)]
    ELSE [header |-> h, stop |-> FALSE]

Origins ==
    { <<>>, <<"http", "://", "a">>, <<"http", "://", "a", ":", "80">>,
      <<"http", "://", "a", ":", "81">>, <<"https", "://", "a">>, <<"http", "://", "b">>,
      <<"null">>, <<":", "a">> }
Hosts == { <<"a">>, <<"a", ":", "80">>, <<"a", ":", "81">>, <<"a", ":", "443">> }
CorsRequests ==
    [method : { "OPTIONS", "GET" }, host : Hosts, tls : BOOLEAN, origin : Origins,
     xfp : { <<>>, <<"https">> }, acrm : { <<>>, <<"POST">> }]
DomainLists ==
    { << <<"http", "://", "b">> >>,
      << <<"https", "://", "a">>, <<"http", "://", "a", ":", "81">> >> }

\* the middleware as chain entries, and the entries around them
CorsEntries == { H("FuncX2None", <<"AllowAny">>, "ok"), H("FuncX2None", <<"CorsAllow">>, "ok") }
Around ==
    { H("FuncX2AnyErr", <<>>, "ok"), H("FuncX2AnyErr", <<"Next">>, "ok"),
      H("FuncX2AnyErr", <<>>, "err"), H("FuncErr", <<>>, "nil"), H("FuncErr", <<>>, "pass") }
CorsChains ==
    { c \in SeqsOf(CorsEntries \cup Around, 2, MaxChain) :
        /\ Cardinality({ i \in DOMAIN c : c[i] \in CorsEntries }) = 1
        /\ c[1] \in CorsEntries \/ c[2] \in CorsEntries }

InitCors ==
    /\ routes = <<NewRouter>>
    /\ setlog = <<>>
    /\ crashed = FALSE
    /\ req = NoReq
    /\ res = NoRes
    /\ xchain \in CorsChains
    /\ xfcs = <<>> /\ xfid = 0 /\ stack = <<>>
    /\ panicking = NoPanic /\ calls = <<>> /\ scans = <<>>
    /\ stopped = FALSE /\ xstate = "acquired"
    /\ IdleP
    /\ now = 0 /\ clients = <<>> /\ limlog = <<>>
    /\ cache = <<>> /\ inflight = <<>> /\ cachelog = <<>>
    /\ config \in [domains : IF H("FuncX2None", <<"CorsAllow">>, "ok") \in Range(xchain)
                             THEN DomainLists ELSE { <<>> }]
    /\ hreq \in CorsRequests
    /\ header = <<>>
    /\ IdleD /\ IdleE

\* the entry that is running is AllowAny
FnAllowAny ==
    /\ Running /\ Top.f = "fn" /\ Top.ops # <<>> /\ Head(Top.ops) = "AllowAny"
    /\ LET out == AllowAny(hreq, header)
       IN /\ header' = out.header
          /\ xfid' = IF out.stop THEN Stop(xfid) ELSE xfid
          /\ stopped' = (stopped \/ out.stop)
    /\ stack' = SetTop([Top EXCEPT !.ops = Tail(@)])
    /\ UNCHANGED <<varsRoute, varsP, now, config, clients, limlog, cache, inflight, cachelog,
                   hreq, varsD, varsE, xchain, xfcs, panicking, calls, scans, xstate>>

\* the entry that is running is the function CorsAllow(domains...) returned
FnCorsAllow ==
    /\ Running /\ Top.f = "fn" /\ Top.ops # <<>> /\ Head(Top.ops) = "CorsAllow"
    /\ LET out == CorsAllow(config.domains, hreq, header)
       IN /\ header' = out.header
          /\ xfid' = IF out.stop THEN Stop(xfid) ELSE xfid
          /\ stopped' = (stopped \/ out.stop)
    /\ stack' = SetTop([Top EXCEPT !.ops = Tail(@)])
    /\ UNCHANGED <<varsRoute, varsP, now, config, clients, limlog, cache, inflight, cachelog,
                   hreq, varsD, varsE, xchain, xfcs, panicking, calls, scans, xstate>>

\* the pipeline with the entries of CorsChains: none of them calls Stop or Skip
\* itself and none panics
NextCors ==
    \/ Serve
    \/ NextReturn \/ NextInvoke \/ NextPassOver \/ NextOnErr \/ NextRecurse
    \/ FnAllowAny \/ FnCorsAllow \/ FnNext \/ FnReturn
    \/ ScanExhausted \/ ScanSkip \/ ScanInvoke \/ ScanHandled \/ ScanContinue
    \/ release

SpecCors == InitCors /\ [][NextCors]_vars

\* ------------------------------------------------------------ C21
CorsPos == CHOOSE i \in DOMAIN xchain : xchain[i] \in CorsEntries
CorsKind == Head(xchain[CorsPos].ops)
CorsCalls == { i \in DOMAIN calls : calls[i].pos = CorsPos }
\* the middleware has been invoked and has run to its end
CorsRan ==
    /\ CorsCalls # {}
    /\ ~(stack # <<>> /\ Top.f = "fn" /\ Top.pos = CorsPos /\ Top.ops # <<>>)

\* the origin of the request and the origin its Origin header names, as scheme,
\* host name and port, with the default port of the scheme for a missing one
DefaultPort(scheme) == IF scheme = "https" THEN "443" ELSE "80"
Triple(scheme, host) ==
    <<scheme, host[1], IF Len(host) = 3 THEN host[3] ELSE DefaultPort(scheme)>>
OwnOrigin(r) == Triple(IF r.tls \/ r.xfp = <<"https">> THEN "https" ELSE "http", r.host)
Named(origin) == Len(origin) >= 3 /\ origin[2] = "://"
SameOriginRequest(r) ==
    \/ r.origin = <<>>
    \/ Named(r.origin) /\ Triple(r.origin[1], SubSeq(r.origin, 3, Len(r.origin))) = OwnOrigin(r)
CrossOriginRequest(r) ==
    \/ r.origin = <<"null">>
    \/ Named(r.origin) /\ Triple(r.origin[1], SubSeq(r.origin, 3, Len(r.origin))) # OwnOrigin(r)
OriginListed == hreq.origin \in Range(config.domains)

\* C21 (CORS preflight): once AllowAny, or CorsAllow with the Origin of the request
\* in its list, has run for a cross-origin OPTIONS request that carries
\* Access-Control-Request-Method, Stop has been called and no entry is invoked after
\* the middleware; CorsAllow sets no Access-Control header and does not call Stop
\* when the Origin is not in its list, and neither middleware does for a same-origin
\* request.
C21_Preflight ==
    CorsRan =>
      /\ ( /\ CrossOriginRequest(hreq)
           /\ hreq.method = "OPTIONS" /\ hreq.acrm # <<>>
           /\ CorsKind = "AllowAny" \/ OriginListed )
         => ( /\ stopped /\ xfid >= Len(xfcs)
              /\ \A i \in CorsCalls : \A j \in DOMAIN calls : j <= i )
      /\ (CorsKind = "CorsAllow" /\ ~OriginListed) => (header = <<>> /\ ~stopped)
      /\ SameOriginRequest(hreq) => (header = <<>> /\ ~stopped)

\* a listed cross-origin preflight went through CorsAllow, which an earlier entry
\* had reached by calling Next, with an entry left behind it, and the request ended
C21_Witness ==
    /\ xstate = "released"
    /\ CorsRan /\ CorsKind = "CorsAllow" /\ OriginListed /\ stopped
    /\ CrossOriginRequest(hreq)
    /\ CorsPos = 2 /\ Len(xchain) = 3 /\ xchain[1].ops = <<"Next">>
    /\ header # <<>>

\* ------------------------------------------------------------ C22
\* an entry has returned an error or panicked: Next or its deferred function has
\* handed the error to handleErr
Failing == scans # <<>>
\* this step invokes an entry
Invokes == Len(calls') = Len(calls) + 1
Invoked1 == xfcs[calls'[Len(calls')].pos]
NestedNext == \E i \in DOMAIN xchain : "Next" \in Range(xchain[i].ops)

\* C22 (no re-entry into forward execution): once an entry of the request has
\* returned an error or panicked, every entry invoked later in the request is an
\* error-handler, whatever the entries of the chain call on x.
C22_NoReentry == [][(Failing /\ Invokes) => IsFuncErr(Invoked1)]_vars

\* C22 for the chains none of whose entries calls Next itself
C22_NoReentryUnlessNested ==
    [][(Failing /\ Invokes /\ ~NestedNext) => IsFuncErr(Invoked1)]_vars

\* an error was handled by an error-handler that returned nil, with a handler left
\* behind it that is never invoked
C22_Witness ==
    /\ xstate = "returned" /\ ~NestedNext
    /\ \E s \in DOMAIN scans : scans[s].handled = "true"
    /\ \E i \in DOMAIN xchain : /\ ~IsFuncErr(xchain[i])
                                /\ \A c \in DOMAIN calls : calls[c].pos < i

\* ------------------------------------------------------------ C23
\* the invocations so far are at strictly increasing positions of the chain
Increasing == \A i, j \in DOMAIN calls : i < j => calls[i].pos < calls[j].pos
\* the cursor does not go down in a step other than release
CursorUp == xstate' # "released" => xfid' >= xfid
\* some entry passes Skip a count that int(count) turns negative
WrappingSkip ==
    \E i \in DOMAIN xchain : \E op \in Range(xchain[i].ops) :
        op \in SkipCalls /\ SkipArgs(op) # <<>> /\ SkipArgs(op)[1] >= 2^(WordBits - 1)

\* C23 (no retry, no backtracking): within a request every position of the chain is
\* invoked at most once and in strictly increasing order of position, and the
\* cursor never decreases between acquire and release.
C23_NoBacktracking == [](Increasing) /\ [][CursorUp]_vars

\* C23 for the chains in which every count passed to Skip is below 2^(WordBits-1)
C23_NoBacktrackingInRange ==
    [](~WrappingSkip => Increasing) /\ [][~WrappingSkip => CursorUp]_vars

\* a request with a nested Next, a Skip and a returned error ended with three
\* invocations
C23_Witness ==
    /\ xstate = "returned" /\ ~WrappingSkip
    /\ Len(calls) = 3 /\ scans # <<>>
    /\ \E i \in DOMAIN xchain : "Next" \in Range(xchain[i].ops)
    /\ \E i \in DOMAIN xchain : Range(xchain[i].ops) \cap SkipCalls # {}

\* ------------------------------------------------------------ value threading
\* one entry of every shape that returns without error, an error-handler, a
\* handler that fails, and handlers that call Next and Skip before they return
ValueEntries ==
    { H(k, <<>>, "ok") : k \in Callable \ { "FuncHttp2Err", "FuncHttp2AnyErr", "FuncAny2Err" } }
    \cup { H("FuncErr", <<>>, "nil"), H("FuncX2AnyErr", <<>>, "err"),
           H("FuncX2Any", <<"Next">>, "ok"), H("FuncX2Any", <<"Skip">>, "ok") }

InitValue ==
    /\ routes = <<NewRouter>>
    /\ setlog = <<>>
    /\ crashed = FALSE
    /\ req = NoReq
    /\ res = NoRes
    /\ xchain \in SeqsOf(ValueEntries, 1, MaxThread)
    /\ xfcs = <<>> /\ xfid = 0 /\ stack = <<>>
    /\ panicking = NoPanic /\ calls = <<>> /\ scans = <<>>
    /\ stopped = FALSE /\ xstate = "acquired"
    /\ IdleP
    /\ IdleM

\* the pipeline with the entries of ValueEntries: none calls Stop, none panics and
\* no error-handler returns an error
NextValue ==
    \/ Serve
    \/ NextReturn \/ NextInvoke \/ NextPassOver \/ NextOnErr \/ NextRecurse
    \/ FnSkip \/ FnNext \/ FnReturn
    \/ ScanExhausted \/ ScanSkip \/ ScanInvoke \/ ScanHandled
    \/ release

SpecValue == InitValue /\ [][NextValue]_vars

\* ------------------------------------------------------------ C24
HasValueOutput ==
    { "FuncX2Any", "FuncX2AnyErr", "FuncAny2Any", "FuncAny2AnyErr", "FuncHttp2Any",
      "FuncHttp2AnyErr" }
\* the value the entry at position a produces
Produced(a) ==
    IF xchain[a].k \in HasValueOutput /\ xchain[a].out = "ok" THEN Val(a) ELSE NilV
CallsNext(a) == "Next" \in Range(xchain[a].ops)
\* where forward execution goes on after the entry at a has returned
Landing(a) ==
    a + 1 + (IF xchain[a].ops # <<>> /\ xchain[a].ops[1] \in SkipCalls
             THEN (IF SkipArgs(xchain[a].ops[1]) = <<>> THEN 1
                   ELSE SkipArgs(xchain[a].ops[1])[1])
             ELSE 0)
ValueInputs == { j \in DOMAIN calls : calls[j].as = "handler" /\ xchain[calls[j].pos].k \in TakesArg }
\* the input the invocation j is to get: the value of the entry invoked just before
\* it when forward execution went from that entry, returned, straight to this one
Threaded(j) ==
    IF j = 1 THEN NilV
    ELSE LET a == calls[j - 1].pos
         IN IF /\ calls[j - 1].as = "handler" /\ ~CallsNext(a)
               /\ calls[j].pos = Landing(a)
            THEN Produced(a) ELSE NilV

\* C24 (value threading): the input of a value-input entry is the value produced by
\* the entry invoked immediately before it in forward execution, nil when that
\* entry has no value output or an error-handler was passed over in between, and
\* nil for the first entry of the chain.
C24_Threading == \A j \in ValueInputs : calls[j].in = Threaded(j)

\* C24 for the chains none of whose entries calls Next itself
C24_ThreadingUnlessNested ==
    (\A a \in DOMAIN xchain : ~CallsNext(a)) => \A j \in ValueInputs : calls[j].in = Threaded(j)

\* a value went from a producer to a value-input entry, was not carried across an
\* entry without value output to the next value-input entry, and the first entry
\* was a value-input entry
C24_Witness ==
    /\ xstate = "returned" /\ Len(calls) = 4 /\ \A a \in DOMAIN xchain : ~CallsNext(a)
    /\ xchain[1].k = "FuncAny2Any" /\ calls[1].in = NilV
    /\ calls[2].in = Val(1)
    /\ xchain[3].k \notin HasValueOutput /\ xchain[4].k \in TakesArg
    /\ calls[4].in = NilV

\* ------------------------------------------------------------ C25
\* the errors the error-handlers of a scan were given that started at a recovered
\* panic: the first one is the error the deferred function made of the panic value
HandedOver(s) == IF scans[s].passed = <<>> THEN scans[s].first ELSE scans[s].passed[1]

\* C25 (panic conversion): whatever value a handler panics with, the error handed
\* to the error-handlers is a generic crash error, not the panic value itself.
C25_PanicConverted ==
    \A s \in RecoverScans : HandedOver(s)[1] = "crash"

\* C25 as the code has it: a panic value that is no error is handed over as a crash
\* error made of it, a panic value that is an error is handed over as it is
C25_PanicConvertedUnlessError ==
    \A s \in RecoverScans :
        LET p == scans[s].first[2]
        IN /\ xchain[p].out \in Panics
           /\ xchain[p].out = "panicVal" => HandedOver(s) = Crash(PanicVal(p))
           /\ xchain[p].out = "panicErr" => HandedOver(s) = PanicErr(p)

\* an error-handler was given the error a handler had panicked with
C25_Witness ==
    \E s \in RecoverScans :
        /\ scans[s].passed # <<>>
        /\ xchain[scans[s].first[2]].out = "panicErr"
        /\ \E c \in DOMAIN calls :
              calls[c].scan = s /\ calls[c].as = "errhandler" /\ calls[c].in[1] = "perr"

\* ------------------------------------------------------------ C26
Roots == { x \in DOMAIN routes : routes[x].parent = nil }
\* the routes match goes through from r to n: down the child links
RECURSIVE WalkTo(_, _)
WalkTo(r, n) ==
    IF r = n THEN <<r>>
    ELSE LET c == CHOOSE c \in Children(routes, r) : n \in Subtree(routes, c)
         IN <<r>> \o WalkTo(c, n)
\* the chain of n for the method k, composed anew from the routes on the way from
\* the root r to n
Recomputed(r, n, k) ==
    LET way == WalkTo(r, n)
    IN [whole |-> Flatten([i \in DOMAIN way |-> routes[way[i]].funcBefore])
                  \o routes[n].handlers[k]
                  \o Flatten([i \in DOMAIN way |-> routes[Reverse(way)[i]].funcAfter]),
        way |-> way]
Marker(fc) == fc.k = "FuncSkipBefore"
LastOp == setlog[Len(setlog)]
Served(n) == { k \in DOMAIN routes[n].handlers : Len(routes[n].handlers[k]) > 0 }

Whole(n, k) == BeforeDown(n) \o routes[n].handlers[k] \o AfterUp(n)
Markers(chain) == { i \in DOMAIN chain : Marker(chain[i]) }
\* chain[i+1:]
Behind(chain, i) == [j \in 1..(Len(chain) - i) |-> chain[i + j]]

\* C27 (skip-before truncation): when the composed chain of a node (inherited
\* before-middleware, own handlers, inherited after-middleware) holds a skip-before
\* marker, the cached chain is exactly the entries behind the last marker, in
\* order: everything before the marker and the marker itself are gone.
C27_SkipBefore ==
    \A n \in Attached : \A k \in DOMAIN routes[n].handlers :
        \A i \in Markers(Whole(n, k)) :
            (\A j \in Markers(Whole(n, k)) : j <= i)
                => /\ k \in DOMAIN routes[n].handlersCache
                   /\ routes[n].handlersCache[k] = Behind(Whole(n, k), i)
                   /\ Markers(routes[n].handlersCache[k]) = {}

\* a composed chain with two markers, an entry between them and an entry behind
\* the last one, which is all the cached chain holds
C27_Witness ==
    \E n \in Attached : \E k \in DOMAIN routes[n].handlers :
        \E i, j \in Markers(Whole(n, k)) :
            /\ i + 1 < j /\ j < Len(Whole(n, k))
            /\ routes[n].handlersCache[k] = Behind(Whole(n, k), j)
            /\ routes[n].handlersCache[k] # <<>>

\* ------------------------------------------------------------ C28
NamedUrl == Url(<< <<":", "i">> >>)
\* the last operation registered a pattern of one fragment from a Router that is
\* no wildcard node, and completed
Registering(urls) ==
    /\ setlog # <<>> /\ ~crashed
    /\ LastOp.op \in { "Set", "SubRouter" } /\ ~LastOp.recvWild
    /\ LastOp.url \in urls

MatchedPath == PathTo(routes, res.node)
BindsParam(n) == IsNamed(routes[n].fragment) \/ IsWildcard(routes[n].fragment)
DepthsOf(k) ==
    { d \in DOMAIN MatchedPath :
        BindsParam(MatchedPath[d]) /\ ParamName(routes[MatchedPath[d]].fragment) = k }
\* the text match binds at depth d: the segment for a named route, the rest of the
\* path for a wildcard route ("" when the rest is "/")
BoundAt(d) ==
    LET u == DropSegs(Walked, d - 1)
    IN IF IsWildcard(routes[MatchedPath[d]].fragment)
       THEN (IF u = <<"/">> THEN <<>> ELSE u)
       ELSE FirstSeg(u)
Shallowest(k) == CHOOSE d \in DepthsOf(k) : \A e \in DepthsOf(k) : d <= e
Deepest(k) == CHOOSE d \in DepthsOf(k) : \A e \in DepthsOf(k) : e <= d
Entries1(k) == { i \in DOMAIN res.ps : res.ps[i][1] = k }
Matched == req.served /\ res.node # nil

\* C29 (path-parameter upsert): the parameter list keeps a single entry for a key
\* and setParam on a key that is present puts the new value in it; match binds the
\* deeper routes first and the routes nearer the root last, so after a pattern with
\* one name at two depths Params.Get gives the text bound last, the one of the
\* depth nearest the root.
C29_Upsert ==
    Matched =>
      \A k \in ParamNamesOf(routes, Range(MatchedPath)) :
          /\ Cardinality(Entries1(k)) = 1
          /\ Try(res.ps, k) = [v |-> BoundAt(Shallowest(k)), ok |-> TRUE]

\* C29 as the code has it: a single entry for a key, which keeps the text bound
\* first, the one of the deepest route with the name
C29_FirstBindingStays ==
    Matched =>
      \A k \in ParamNamesOf(routes, Range(MatchedPath)) :
          /\ Cardinality(Entries1(k)) = 1
          /\ Try(res.ps, k) = [v |-> BoundAt(Deepest(k)), ok |-> TRUE]

\* a request was matched through two routes with one name and two different texts
C29_Witness ==
    /\ Matched
    /\ \E k \in ParamNamesOf(routes, Range(MatchedPath)) :
          /\ Shallowest(k) # Deepest(k)
          /\ BoundAt(Shallowest(k)) # BoundAt(Deepest(k))
          /\ Try(res.ps, k).v = BoundAt(Deepest(k))

\* ------------------------------------------------------------ C30
\* the depths of the matched path whose route is the wildcard child of a position
\* that has a named child too, reached with a segment left: the named child was
\* asked first and its subtree gave no node
ColonAbandoned ==
    { d \in DOMAIN MatchedPath :
        LET n == MatchedPath[d]
            p == routes[n].parent
        IN /\ routes[p].wildcard = n
           /\ routes[p].colon # nil
           /\ DropSegs(Walked, d - 1) \notin {<<>>, <<"/">>} }

Kinds == {"string", "int", "int8", "uint", "uint8", "bool", "time"}
DecodeFields == { Fd("k", "query", kind, ptr, <<>>) : kind \in Kinds, ptr \in BOOLEAN }
Literals ==
    { <<>>, <<"x">>, <<"0">>, <<"1">>, <<"7">>, <<"-", "3">>, <<"+", "5">>,
      <<"1", "2", "7">>, <<"1", "2", "8">>, <<"-", "1", "2", "9">>, <<"2", "5", "5">>,
      <<"3", "0", "0">>,
      <<"y", "e", "s">>, <<"o", "n">>, <<"y">>, <<"n", "o">>, <<"o", "f", "f">>,
      <<"t", "r", "u", "e">>, <<"T", "R", "U", "E">>, <<"t", "R", "u", "E">>,
      <<"F", "a", "l", "s", "e">>,
      <<Date, "T", Clock, "Z">>, <<Date, "T", Clock>>, <<Date, " ", Clock>>,
      <<Date>>, <<Clock>> }

InitDecode ==
    /\ routes = <<NewRouter>>
    /\ setlog = <<>>
    /\ crashed = FALSE
    /\ req = NoReq
    /\ res = NoRes
    /\ IdleX
    /\ IdleP
    /\ now = 0 /\ config = <<>> /\ clients = <<>> /\ limlog = <<>>
    /\ cache = <<>> /\ inflight = <<>> /\ cachelog = <<>>
    /\ hreq = <<>> /\ header = <<>> /\ IdleE
    /\ dfield \in DecodeFields
    /\ dinput \in Literals
    /\ doutcome = <<>>

Ways(how) == { i \in DOMAIN doutcome : doutcome[i].how = how }

\* setFieldValue with found = false and the default tag dinput
BindDefault ==
    /\ Ways("default") = {}
    /\ doutcome' = Append(doutcome,
          [how |-> "default",
           r |-> setFieldValue([dfield EXCEPT !.def = dinput], Zero(dfield), <<>>, FALSE)])
    /\ UNCHANGED <<varsRoute, varsX, varsP, now, config, clients, limlog, cache, inflight,
                   cachelog, hreq, header, varsE, dfield, dinput>>

\* setFieldValue with found = true and the value dinput
BindSupplied ==
    /\ Ways("supplied") = {}
    /\ doutcome' = Append(doutcome,
          [how |-> "supplied", r |-> setFieldValue(dfield, Zero(dfield), dinput, TRUE)])
    /\ UNCHANGED <<varsRoute, varsX, varsP, now, config, clients, limlog, cache, inflight,
                   cachelog, hreq, header, varsE, dfield, dinput>>

NextDecode == BindDefault \/ BindSupplied

SpecDecode == InitDecode /\ [][NextDecode]_vars

\* ------------------------------------------------------------ C31
ByDefault == doutcome[CHOOSE i \in Ways("default") : TRUE].r
BySupply == doutcome[CHOOSE i \in Ways("supplied") : TRUE].r
BothBound == Ways("default") # {} /\ Ways("supplied") # {} /\ dinput # <<>>

\* C31 (the default uses the same decoder): for every kind of field and every
\* literal s, binding the absent field with the default tag s and binding the
\* field with the supplied raw string s give the same result: the same value, or
\* a failure both times.
C31_SameDecoder ==
    BothBound =>
      /\ (ByDefault.err = "") = (BySupply.err = "")
      /\ ByDefault.err = "" => ByDefault.val = BySupply.val

\* C31 as the code has it: the decoder of the default is the narrower one. What
\* it takes, the decoder of supplied values takes with the same value; for
\* strings and integers the two agree.
C31_DefaultNarrower ==
    BothBound =>
      /\ ByDefault.err = "" => BySupply.err = "" /\ ByDefault.val = BySupply.val
      /\ dfield.kind \in {"string"} \cup Ints \cup Uints =>
            (ByDefault.err = "") = (BySupply.err = "")

\* a boolean spelling and a timestamp layout were bound both ways: the supplied
\* value bound, the default failed
C31_Witness ==
    /\ BothBound
    /\ ByDefault.err # "" /\ BySupply.err = ""
    /\ \/ dfield.kind = "bool" /\ dinput = <<"y", "e", "s">> /\ BySupply.val = BoolV(TRUE)
       \/ dfield.kind = "time" /\ dinput = <<Date>>

\* ------------------------------------------------------------ query and form values
\* One field sourced from the query or the form, and one request: its
\* Content-Type, the values of the field's key in the URL query and in the body.
FormFields ==
    { Fd("k", parse, kind, ptr, <<>>) :
        parse \in {"query", "form"}, kind \in {"string", "int", "strings"}, ptr \in BOOLEAN }
KeyValues == SeqsOf({ <<"7">>, <<"a">> }, 0, 2)
FormRequests ==
    { [ctype |-> c, query |-> q, body |-> b] :
        c \in {"", "application/x-www-form-urlencoded", "multipart/form-data"},
        q \in KeyValues, b \in KeyValues }

\* x.Request.Form after ParseForm or ParseMultipartForm: the values of the body,
\* then those of the URL query; nil when neither was called
Form(r) == IF r.ctype = "" THEN <<>> ELSE r.body \o r.query
\* x.Request.MultipartForm.Value: the values of the multipart body
MultipartValue(r) == r.body

\* what the switch of Parse finds: found, the value, and whether the value is a
\* []string (many) or one string
One(strs) == [found |-> TRUE, many |-> FALSE, value |-> strs[1]]
All(strs) == [found |-> TRUE, many |-> TRUE, value |-> strs]
Nothing == [found |-> FALSE, many |-> FALSE, value |-> <<>>]

\* mutant of lookupForm: a multipart form is read as a URL-encoded one is
lookupFormAlike(r, fd) ==
    IF Form(r) # <<>>
    THEN (IF fd.kind = "strings" THEN All(Form(r)) ELSE One(Form(r)))
    ELSE Nothing

\* lines 123-139
lookupForm(r, fd) ==
    IF r.ctype = "multipart/form-data"
    THEN (IF MultipartValue(r) # <<>> THEN All(MultipartValue(r)) ELSE Nothing)
    ELSE IF Form(r) # <<>>
    THEN (IF fd.kind = "strings" THEN All(Form(r)) ELSE One(Form(r)))
    ELSE Nothing

\* lines 140-150
lookupQuery(r, fd) ==
    IF r.query # <<>>
    THEN (IF fd.kind = "strings" THEN All(r.query) ELSE One(r.query))
    ELSE Nothing

\* line 163: setFieldValue with what was found
bindFound(fd, cur, lk) ==
    IF lk.found /\ lk.many THEN setValueStrings(fd, cur, lk.value)
    ELSE setFieldValue(fd, cur, lk.value, lk.found)

InitForm ==
    /\ routes = <<NewRouter>>
    /\ setlog = <<>>
    /\ crashed = FALSE
    /\ req = NoReq
    /\ res = NoRes
    /\ IdleX
    /\ IdleP
    /\ now = 0 /\ config = <<>> /\ clients = <<>> /\ limlog = <<>>
    /\ cache = <<>> /\ inflight = <<>> /\ cachelog = <<>>
    /\ hreq = <<>> /\ header = <<>> /\ IdleE
    /\ dfield \in FormFields
    /\ dinput \in FormRequests
    /\ doutcome = <<>>

\* Parse on a target with the one field, sourced from the form
ParseFormField ==
    /\ doutcome = <<>> /\ dfield.parse = "form"
    /\ doutcome' = <<[how |-> "form", r |-> bindFound(dfield, Zero(dfield), lookupForm(dinput, dfield))]>>
    /\ UNCHANGED <<varsRoute, varsX, varsP, now, config, clients, limlog, cache, inflight,
                   cachelog, hreq, header, varsE, dfield, dinput>>

\* Parse on a target with the one field, sourced from the query
ParseQueryField ==
    /\ doutcome = <<>> /\ dfield.parse = "query"
    /\ doutcome' = <<[how |-> "query", r |-> bindFound(dfield, Zero(dfield), lookupQuery(dinput, dfield))]>>
    /\ UNCHANGED <<varsRoute, varsX, varsP, now, config, clients, limlog, cache, inflight,
                   cachelog, hreq, header, varsE, dfield, dinput>>

NextForm == ParseFormField \/ ParseQueryField

SpecForm == InitForm /\ [][NextForm]_vars

\* ------------------------------------------------------------ C32
\* the values of the field's key in the map its source reads
Submitted ==
    IF dfield.parse = "query" THEN dinput.query
    ELSE IF dinput.ctype = "multipart/form-data" THEN MultipartValue(dinput)
    ELSE Form(dinput)
Multipart == dfield.parse = "form" /\ dinput.ctype = "multipart/form-data"
\* the decoder handed the first value, or all of them
FirstOrAll ==
    IF dfield.kind = "strings" THEN Bound(StrsV(Submitted))
    ELSE setValue(dfield, Zero(dfield), Submitted[1])
Parsed == doutcome # <<>> /\ Submitted # <<>>

\* C32 (query/form extraction): for a field sourced from the query or the form
\* whose key has values, Parse hands the decoder the first value when the field
\* is no string collection and all values when it is, whatever the encoding of
\* the body: a scalar form field of a multipart request binds its first value.
C32_FirstOrAll == Parsed => doutcome[1].r = FirstOrAll

\* C32 as the code has it: the same, except that a scalar form field of a
\* multipart request is handed all the values and fails to bind.
C32_FirstOrAllButMultipart ==
    Parsed =>
      IF Multipart /\ dfield.kind # "strings"
      THEN doutcome[1].r.err = "cannot convert []string"
      ELSE doutcome[1].r = FirstOrAll

\* a scalar form field of a multipart request with one value submitted did not
\* bind, and the field keeps its zero value
C32_Witness ==
    /\ Parsed /\ Multipart /\ dfield.kind = "int" /\ ~dfield.ptr
    /\ Submitted = << <<"7">> >>
    /\ doutcome[1].r.err # "" /\ doutcome[1].r.val = IntV(0)

\* ------------------------------------------------------------ the lookup key
\* A struct field as Parse sees it: its Go name and its json and parse tags.
FieldNames == { <<"N">>, <<"I", "D">>, <<"U", "s", "e", "r", "I", "D">>,
                <<"U", "s", "e", "r", "N", "a", "m", "e">> }
JsonTags == { <<>>, <<"k">>, <<"k", ",", "o", "m", "i", "t", "e", "m", "p", "t", "y">>,
              <<",", "o", "m", "i", "t", "e", "m", "p", "t", "y">> }
ParseTags ==
    { <<>>, <<"j", "s", "o", "n">>, <<"q", "u", "e", "r", "y">>,
      <<"h", "e", "a", "d", "e", "r">>,
      <<"q", "u", "e", "r", "y", "@", "a">>,
      <<"h", "e", "a", "d", "e", "r", "@", "a">>,
      <<"p", "a", "t", "h", "@", "i", "d">> }
StructFields ==
    { [name |-> n, json |-> j, parse |-> t] : n \in FieldNames, j \in JsonTags, t \in ParseTags }

\* strings.ReplaceAll(input, "ID", "Id"), then '_' before every upper-case letter
\* but the first, and the letter in lower case
RECURSIVE Snake(_, _)
Snake(input, i) ==
    IF i > Len(input) THEN <<>>
    ELSE (IF input[i] \in DOMAIN Lower
          THEN (IF i > 1 THEN <<"_">> ELSE <<>>) \o <<Lower[input[i]]>>
          ELSE <<input[i]>>) \o Snake(input, i + 1)
CamelToSnake(input) ==
    Snake([i \in DOMAIN input |->
              IF input[i] = "D" /\ i > 1 /\ input[i - 1] = "I" THEN "d" ELSE input[i]], 1)

\* parts[0] and parts[1] of strings.Split(parseTag, "@")
BeforeAt(tag) == SubSeq(tag, 1, IndexOf(tag, "@") - 1)
AfterAt(tag) ==
    LET rest == From(tag, IndexOf(tag, "@"))
    IN IF "@" \in Range(rest) THEN SubSeq(rest, 1, IndexOf(rest, "@") - 1) ELSE rest
\* fieldName[:idx] for the first ','
UpToComma(name) == IF "," \in Range(name) THEN SubSeq(name, 1, IndexOf(name, ",") - 1) ELSE name

\* mutant of fieldName: the options are cut off the json tag before it is tested
\* for being empty
fieldNameOptionsFirst(f) ==
    IF "@" \in Range(f.parse) THEN UpToComma(AfterAt(f.parse))
    ELSE IF UpToComma(f.json) = <<>> THEN CamelToSnake(f.name)
    ELSE UpToComma(f.json)

\* lines 92-109: the json tag, or the snake form of the name when the tag is
\* empty; the alias when the parse tag has an '@'; then the options are cut off
fieldName(f) ==
    LET named == IF f.json = <<>> THEN CamelToSnake(f.name) ELSE f.json
        aliased == IF "@" \in Range(f.parse) THEN AfterAt(f.parse) ELSE named
    IN UpToComma(aliased)

\* lines 88-90 and 98-100: the source, "json" when there is no parse tag
parseTag(f) ==
    IF f.parse = <<>> THEN <<"j", "s", "o", "n">>
    ELSE IF "@" \in Range(f.parse) THEN BeforeAt(f.parse)
    ELSE f.parse

InitKey ==
    /\ routes = <<NewRouter>>
    /\ setlog = <<>>
    /\ crashed = FALSE
    /\ req = NoReq
    /\ res = NoRes
    /\ IdleX
    /\ IdleP
    /\ now = 0 /\ config = <<>> /\ clients = <<>> /\ limlog = <<>>
    /\ cache = <<>> /\ inflight = <<>> /\ cachelog = <<>>
    /\ hreq = <<>> /\ header = <<>> /\ IdleE
    /\ dfield \in StructFields
    /\ dinput = <<>>
    /\ doutcome = <<>>

\* the turn of the loop of Parse for the field, up to the switch on the source
ResolveKey ==
    /\ doutcome = <<>>
    /\ doutcome' = <<[how |-> "key", source |-> parseTag(dfield), key |-> fieldName(dfield)]>>
    /\ UNCHANGED <<varsRoute, varsX, varsP, now, config, clients, limlog, cache, inflight,
                   cachelog, hreq, header, varsE, dfield, dinput>>

SpecKey == InitKey /\ [][ResolveKey]_vars

\* ------------------------------------------------------------ C33
HasAlias == "@" \in Range(dfield.parse)
JsonName == UpToComma(dfield.json)
OptionsOnly == ~HasAlias /\ dfield.json # <<>> /\ JsonName = <<>>
Resolved == doutcome # <<>>

\* C33 (lookup-key resolution): the key is the alias after '@' in the source tag
\* when there is one; else the name part of the json tag when that name is not
\* empty; else the lowercase-underscore form of the field name. A json tag with
\* options only falls back to that form, never to an empty key.
C33_KeyResolution ==
    Resolved =>
      /\ doutcome[1].key =
            IF HasAlias THEN AfterAt(dfield.parse)
            ELSE IF JsonName # <<>> THEN JsonName
            ELSE CamelToSnake(dfield.name)
      /\ doutcome[1].key # <<>>

\* C33 as the code has it: the same, except that a json tag with options only
\* and no alias gives the empty key.
C33_KeyResolutionButOptionsOnly ==
    Resolved =>
      doutcome[1].key =
         IF HasAlias THEN AfterAt(dfield.parse)
         ELSE IF JsonName # <<>> THEN JsonName
         ELSE IF OptionsOnly THEN <<>>
         ELSE CamelToSnake(dfield.name)

\* the key of the field UserID with the json tag ",omitempty" and a query source
\* was resolved, and it is empty
C33_Witness ==
    /\ Resolved /\ OptionsOnly
    /\ dfield.name = <<"U", "s", "e", "r", "I", "D">>
    /\ dfield.parse = <<"q", "u", "e", "r", "y">>
    /\ CamelToSnake(dfield.name) = <<"u", "s", "e", "r", "_", "i", "d">>
    /\ doutcome[1].key = <<>>

\* ------------------------------------------------------------ concurrent requests
\* The transport layer calls ServeHTTP from several goroutines on a tree that is
\* no longer modified. The chains hold handlers that return, some after calling
\* Stop; the tree has the chain on "/u" and on "/:i".
MaxX == 2
ConcEntries == { H("FuncX2None", <<>>, "ok"), H("FuncX2None", <<"Stop">>, "ok") }
ConcChains == SeqsOf(ConcEntries, 1, 2)
ConcPaths == { Url(<<user>>), Url(<< <<"v">> >>), Url(<< user, <<"v">> >>) }

\* a context as xPool.New makes it, and a goroutine that is not in ServeHTTP
NewX == [fid |-> 0, Params |-> <<>>, fcs |-> <<>>, Request |-> NoReq]
Outside ==
    [pc |-> "outside", x |-> nil, path |-> <<>>, m |-> "", node |-> nil, fcs |-> <<>>,
     ps |-> <<>>, invoked |-> <<>>, pooled |-> FALSE, n |-> 0]

InitConc ==
    /\ \E c \in ConcChains : routes = TreeOf(c, FALSE)
    /\ setlog = <<>>
    /\ crashed = FALSE
    /\ req = NoReq
    /\ res = NoRes
    /\ IdleX
    /\ IdleP
    /\ now = 0 /\ config = <<>> /\ clients = <<>> /\ limlog = <<>>
    /\ cache = <<>> /\ inflight = <<>> /\ cachelog = <<>>
    /\ hreq = <<>> /\ header = <<>>
    /\ IdleD
    /\ xs = <<>>
    /\ xpool = {}
    /\ gos = [g \in Goroutines |-> Outside]

\* x := acquire(); x.Request = req. xPool.Get hands out a context it holds, which
\* then is no longer in the pool
AcquirePooled(g) ==
    /\ gos[g].pc = "outside" /\ gos[g].n < MaxReqs
    /\ \E x \in xpool, path \in ConcPaths, m \in ReqMethods :
         /\ xpool' = xpool \ {x}
         /\ xs' = [xs EXCEPT ![x].Request = [path |-> path, m |-> m, served |-> TRUE]]
         /\ gos' = [gos EXCEPT ![g] = [Outside EXCEPT !.pc = "acquired", !.x = x, !.path = path,
                                         !.m = m, !.pooled = TRUE, !.n = gos[g].n + 1]]
    /\ UNCHANGED <<varsRoute, varsX, varsP, now, config, clients, limlog, cache, inflight,
                   cachelog, hreq, header, varsD>>

\* x := acquire(); x.Request = req. xPool.Get makes a context with New: it may do
\* so whatever it holds
AcquireNew(g) ==
    /\ gos[g].pc = "outside" /\ gos[g].n < MaxReqs
    /\ Len(xs) < MaxX
    /\ \E path \in ConcPaths, m \in ReqMethods :
         /\ xs' = Append(xs, [NewX EXCEPT !.Request = [path |-> path, m |-> m, served |-> TRUE]])
         /\ gos' = [gos EXCEPT ![g] = [Outside EXCEPT !.pc = "acquired", !.x = Len(xs) + 1,
                                         !.path = path, !.m = m, !.n = gos[g].n + 1]]
    /\ UNCHANGED <<varsRoute, varsX, varsP, now, config, clients, limlog, cache, inflight,
                   cachelog, hreq, header, varsD, xpool>>

\* r.match(req.URL.Path[1:], req.Method, x), and x.fcs = fcs when it found a node
\* with a chain
Match(g) ==
    /\ gos[g].pc = "acquired"
    /\ LET x == gos[g].x
           r == match(routes, 1, From(gos[g].path, 1), gos[g].m, xs[x].Params)
           found == r.node # nil /\ Len(r.fcs) > 0
       IN /\ xs' = [xs EXCEPT ![x].Params = r.ps, ![x].fcs = IF found THEN r.fcs ELSE @]
          /\ gos' = [gos EXCEPT ![g].pc = IF found THEN "next" ELSE "return",
                                ![g].node = r.node, ![g].fcs = r.fcs, ![g].ps = r.ps]
    /\ UNCHANGED <<varsRoute, varsX, varsP, now, config, clients, limlog, cache, inflight,
                   cachelog, hreq, header, varsD, xpool>>

\* one turn of x.Next for handlers that return and do not call Next themselves:
\* the entry at the cursor is fetched, the cursor advanced and the entry called
\* with x, of which it sees the parameters; an entry that calls Stop moves the
\* cursor to the end
Turn(g) ==
    /\ gos[g].pc = "next"
    /\ LET x == gos[g].x
           pos == xs[x].fid + 1
           fc == xs[x].fcs[pos]
       IN /\ xs[x].fid < Len(xs[x].fcs)
          /\ xs' = [xs EXCEPT ![x].fid = IF IsCallable(fc) /\ "Stop" \in Range(fc.ops)
                                          THEN Stop(pos) ELSE pos]
          /\ gos' = [gos EXCEPT ![g].invoked =
                        IF IsCallable(fc) THEN Append(@, [pos |-> pos, ps |-> xs[x].Params])
                        ELSE @]
    /\ UNCHANGED <<varsRoute, varsX, varsP, now, config, clients, limlog, cache, inflight,
                   cachelog, hreq, header, varsD, xpool>>

\* x.Next finds the cursor at or past the end and returns
Return(g) ==
    /\ gos[g].pc = "next"
    /\ xs[gos[g].x].fid >= Len(xs[gos[g].x].fcs)
    /\ gos' = [gos EXCEPT ![g].pc = "return"]
    /\ UNCHANGED <<varsRoute, varsX, varsP, now, config, clients, limlog, cache, inflight,
                   cachelog, hreq, header, varsD, xs, xpool>>

\* the deferred release(x): the context is reset and put back
Put(g) ==
    /\ gos[g].pc = "return"
    /\ LET x == gos[g].x
       IN /\ xs' = [xs EXCEPT ![x] = [fid |-> 0, Params |-> Truncate(xs[x].Params),
                                      fcs |-> <<>>, Request |-> NoReq]]
          /\ xpool' = xpool \cup {x}
    /\ gos' = [gos EXCEPT ![g].pc = "outside", ![g].x = nil]
    /\ UNCHANGED <<varsRoute, varsX, varsP, now, config, clients, limlog, cache, inflight,
                   cachelog, hreq, header, varsD>>

NextConc ==
    \E g \in Goroutines :
        \/ AcquirePooled(g) \/ AcquireNew(g) \/ Match(g) \/ Turn(g) \/ Return(g) \/ Put(g)

SpecConc == InitConc /\ [][NextConc]_vars

\* ------------------------------------------------------------ C34
\* the request of g served alone, in a context no request has used: what match
\* gives, and the entries the chain runs with the parameters they see
RECURSIVE RunAlone(_, _, _)
RunAlone(fcs, fid, ps) ==
    IF fid >= Len(fcs) THEN <<>>
    ELSE LET fc == fcs[fid + 1]
         IN IF ~IsCallable(fc) THEN RunAlone(fcs, fid + 1, ps)
            ELSE <<[pos |-> fid + 1, ps |-> ps]>> \o
                 RunAlone(fcs, IF "Stop" \in Range(fc.ops) THEN Stop(fid + 1) ELSE fid + 1, ps)
Alone(g) ==
    LET r == match(routes, 1, From(gos[g].path, 1), gos[g].m, <<>>)
    IN [node |-> r.node, fcs |-> r.fcs, ps |-> r.ps,
        invoked |-> IF r.node # nil /\ Len(r.fcs) > 0 THEN RunAlone(r.fcs, 0, r.ps) ELSE <<>>]
InFlight == { g \in Goroutines : gos[g].x # nil }
Done(g) == gos[g].pc \in {"return", "outside"} /\ gos[g].n > 0
\* what the goroutine's request got: before Next returns, the entries run so far
\* are the first ones of the request served alone
AsAlone(g) ==
    /\ gos[g].pc \in {"next", "return", "outside"} /\ gos[g].n > 0 =>
          /\ gos[g].node = Alone(g).node /\ gos[g].fcs = Alone(g).fcs
          /\ gos[g].ps = Alone(g).ps
          /\ Len(gos[g].invoked) <= Len(Alone(g).invoked)
          /\ gos[g].invoked = SubSeq(Alone(g).invoked, 1, Len(gos[g].invoked))
    /\ Done(g) => gos[g].invoked = Alone(g).invoked
Exclusive ==
    /\ \A g, h \in InFlight : g # h => gos[g].x # gos[h].x
    /\ \A g \in InFlight : gos[g].x \notin xpool

\* C34 (request independence under concurrency): in every interleaving of
\* ServeHTTP calls on a tree that is no longer modified, no two requests in
\* flight hold the same context, no step writes to a node of the tree, and the
\* node, the chain, the parameters and the entries invoked of every request are
\* those of the request served alone.
C34_Independence ==
    /\ [](Exclusive /\ \A g \in Goroutines : AsAlone(g))
    /\ [][routes' = routes]_vars

\* two requests are in flight at once, one of them in a context that an earlier
\* request with a parameter has used, both matched and run to the end of their
\* chains
C34_Witness ==
    /\ \A g \in Goroutines : gos[g].pc = "return" /\ gos[g].invoked # <<>>
    /\ \E g \in Goroutines : gos[g].pooled /\ gos[g].ps # <<>>
    /\ \E g, h \in Goroutines : gos[g].path # gos[h].path

\* ------------------------------------------------------------ C35
\* the scheduler runs the one goroutine of the request until it has nothing to do
FairSpecX == SpecX /\ WF_vars(NextX)

AllReturn == \A i \in DOMAIN xchain : xchain[i].out \notin Panics
NoWrap == \A i \in DOMAIN xchain : "SkipMax" \notin Range(xchain[i].ops)
\* Next is back in ServeHTTP
TopReturned == xstate \in {"returned", "released"}
\* the cursor is at or past the end, or the last run of handleErr ended with an
\* error-handler that returned nil
EndedWell ==
    \/ xfid >= Len(xfcs)
    \/ scans # <<>> /\ scans[Len(scans)].handled = "true"
WithinChain == Len(calls) <= Len(xchain)

\* C35 (pipeline termination): for every chain of length n whose handlers each
\* return, whatever use they make of Next, Skip and Stop, the top-level Next
\* returns, after at most n invocations of entries, with the cursor at or past
\* the end of the chain or with an error-handler having returned nil. Stated
\* here: the bound on the invocations and the way Next ends.
C35_Termination ==
    AllReturn =>
      /\ WithinChain
      /\ xstate = "returned" => EndedWell

\* C35 as the code has it: for chains in which no handler passes Skip a count
\* that int() turns negative, the bound, the way Next ends, and that Next does
\* return.
C35_TerminationUnlessWrapped ==
    AllReturn /\ NoWrap =>
      /\ [](WithinChain /\ (xstate = "returned" => EndedWell))
      /\ <>TopReturned

\* Next has returned from a chain of three handlers that return, among them one
\* that calls Next itself and one that calls Skip, every invocation made within
\* the length of the chain
C35_Witness ==
    /\ AllReturn /\ NoWrap /\ xstate = "returned"
    /\ Len(xchain) = MaxChain
    /\ \E i, j \in DOMAIN xchain :
          /\ "Next" \in Range(xchain[i].ops)
          /\ Range(xchain[j].ops) \cap {"Skip", "Skip0", "Skip2"} # {}
    /\ calls # <<>> /\ WithinChain /\ EndedWell

\* ------------------------------------------------------------ Parse, twice
\* One request and two calls of Parse on it, each with a fresh target of one
\* field. The request has the values of the key in its query and in its form
\* body, or a JSON body: none, one that does not parse, or an object with or
\* without the key. A raw JSON value is a string ("a") or a number (7).
RawJson == { [quoted |-> TRUE, text |-> <<"a">>], [quoted |-> FALSE, text |-> <<"7">>] }
JsonBodies ==
    { [is |-> "empty", at |-> <<>>], [is |-> "malformed", at |-> <<>>],
      [is |-> "object", at |-> <<>>] }
    \cup { [is |-> "object", at |-> <<v>>] : v \in RawJson }
TwiceFields ==
    { Fd("k", parse, kind, ptr, def) :
        parse \in {"json", "query", "form"}, kind \in {"string", "int"}, ptr \in BOOLEAN,
        def \in {<<>>, <<"1">>} }
TwiceRequests ==
    { [ctype |-> "", query |-> q, body |-> <<>>, json |-> [is |-> "empty", at |-> <<>>],
       eof |-> FALSE] : q \in SeqsOf({<<"7">>}, 0, 1) }
    \cup { [ctype |-> "application/x-www-form-urlencoded", query |-> q, body |-> b,
            json |-> [is |-> "empty", at |-> <<>>], eof |-> FALSE] :
             q \in SeqsOf({<<"7">>}, 0, 1), b \in SeqsOf({<<"a">>, <<"7">>}, 0, 1) }
    \cup { [ctype |-> "application/json", query |-> q, body |-> <<>>, json |-> j,
            eof |-> FALSE] : q \in SeqsOf({<<"7">>}, 0, 1), j \in JsonBodies }

\* mutant of decodeBody: the body is kept, and every call decodes it in full
decodeBodyKept(r, rest) ==
    IF r.ctype # "application/json" \/ r.json.is = "empty"
    THEN [err |-> ParseOk, jsonData |-> <<>>, isNil |-> TRUE, eof |-> r.eof]
    ELSE IF r.json.is = "malformed"
    THEN [err |-> ArgInvalid("json"), jsonData |-> <<>>, isNil |-> TRUE, eof |-> r.eof]
    ELSE [err |-> ParseOk, jsonData |-> r.json.at, isNil |-> FALSE, eof |-> r.eof]

\* lines 61-72: json.NewDecoder(x.Request.Body).Decode(&jsonData) reads the body
\* where the call before left it. At the end of the body it gives io.EOF, which is
\* no error and leaves jsonData nil. After a body that did not parse, what is
\* left of it (rest) is nothing or something that does not parse either.
decodeBody(r, rest) ==
    IF r.ctype # "application/json"
    THEN [err |-> ParseOk, jsonData |-> <<>>, isNil |-> TRUE, eof |-> r.eof]
    ELSE IF r.eof \/ r.json.is = "empty"
    THEN (IF r.json.is = "malformed" /\ rest
          THEN [err |-> ArgInvalid("json"), jsonData |-> <<>>, isNil |-> TRUE, eof |-> TRUE]
          ELSE [err |-> ParseOk, jsonData |-> <<>>, isNil |-> TRUE, eof |-> TRUE])
    ELSE IF r.json.is = "malformed"
    THEN [err |-> ArgInvalid("json"), jsonData |-> <<>>, isNil |-> TRUE, eof |-> TRUE]
    ELSE [err |-> ParseOk, jsonData |-> r.json.at, isNil |-> FALSE, eof |-> TRUE]

\* setValue for a json.RawMessage: convertToString takes the text of a quoted
\* value and the raw text of any other (lines 532-541); convertToInt unmarshals
\* into an int64 (lines 597-602)
setValueRaw(fd, cur, raw) ==
    IF fd.kind = "string" THEN Bound(StrV(raw.text))
    ELSE IF ~raw.quoted /\ ParseInt(raw.text).ok
    THEN Bound(IntV(SetInt(fd.kind, ParseInt(raw.text).v)))
    ELSE Failed(fd, cur, "json: cannot unmarshal")

\* Parse on a target with the one field fd
ParseOne(r, fd, rest) ==
    LET d == decodeBody(r, rest)
        lk == IF fd.parse = "form" THEN lookupForm(r, fd)
              ELSE IF fd.parse = "query" THEN lookupQuery(r, fd)
              ELSE Nothing
        out == IF fd.parse = "json" /\ ~d.isNil /\ d.jsonData # <<>>
               THEN setValueRaw(fd, Zero(fd), d.jsonData[1])
               ELSE bindFound(fd, Zero(fd), lk)
    IN [r |-> IF d.err # ParseOk THEN [err |-> "json", val |-> Zero(fd)] ELSE out,
        eof |-> d.eof]

InitTwice ==
    /\ routes = <<NewRouter>>
    /\ setlog = <<>>
    /\ crashed = FALSE
    /\ req = NoReq
    /\ res = NoRes
    /\ IdleX
    /\ IdleP
    /\ now = 0 /\ config = <<>> /\ clients = <<>> /\ limlog = <<>>
    /\ cache = <<>> /\ inflight = <<>> /\ cachelog = <<>>
    /\ hreq = <<>> /\ header = <<>> /\ IdleE
    /\ dfield \in TwiceFields
    /\ dinput \in TwiceRequests
    /\ doutcome = <<>>

\* a call of Parse on the request, the first or the second
ParseCall ==
    /\ Len(doutcome) < 2
    /\ \E rest \in BOOLEAN :
         LET p == ParseOne(dinput, dfield, rest)
         IN /\ doutcome' = Append(doutcome, [how |-> "Parse", r |-> p.r])
            /\ dinput' = [dinput EXCEPT !.eof = p.eof]
    /\ UNCHANGED <<varsRoute, varsX, varsP, now, config, clients, limlog, cache, inflight,
                   cachelog, hreq, header, varsE, dfield>>

SpecTwice == InitTwice /\ [][ParseCall]_vars

\* ------------------------------------------------------------ C36
ParsedTwice == Len(doutcome) = 2
JsonRead == dinput.ctype = "application/json" /\ dinput.json.is # "empty"
\* Parse on the same request without its body
Bodiless == ParseOne([dinput EXCEPT !.json = [is |-> "empty", at |-> <<>>]], dfield, FALSE).r

\* C36 (Parse is repeatable): two calls of Parse on the same request with
\* targets of the same type give the same outcome, the same bound value or the
\* same error, for every source, fields sourced from a JSON body included.
C36_Repeatable == ParsedTwice => doutcome[1].r = doutcome[2].r

\* C36 as the code has it: the two calls agree on requests without a JSON body.
\* With one, the second call has the outcome of the request without its body
\* when the first call could decode it.
C36_RepeatableButJson ==
    ParsedTwice =>
      /\ ~JsonRead => doutcome[1].r = doutcome[2].r
      /\ JsonRead /\ dinput.json.is = "object" => doutcome[2].r = Bodiless

\* a required field was bound from the JSON body by the first call and is
\* reported missing by the second
C36_Witness ==
    /\ ParsedTwice /\ dfield.parse = "json" /\ dfield.kind = "int"
    /\ ~dfield.ptr /\ dfield.def = <<>>
    /\ dinput.json = [is |-> "object", at |-> <<[quoted |-> FALSE, text |-> <<"7">>]>>]
    /\ doutcome[1].r = Bound(IntV(7))
    /\ doutcome[2].r.err = "required field missing"

\* ------------------------------------------------------------ C37
\* the supplied text is a decimal integer, and the range of the field's kind. No
\* literal of Literals comes near the ends of the 64-bit kinds, for which 2^30
\* stands
Numeric == ParseInt(dinput).ok
Supplied1 == Ways("supplied") # {} /\ dfield.kind \in Ints \cup Uints /\ Numeric
Lo(kind) == IF kind = "int8" THEN -128 ELSE IF kind \in Uints THEN 0 ELSE -(2^30)
Hi(kind) == IF kind = "int8" THEN 127 ELSE IF kind = "uint8" THEN 255 ELSE 2^30
InWidth(kind, v) == Lo(kind) <= v /\ v <= Hi(kind)

\* C37 (numeric range): when the supplied numeric value is outside the range of
\* the field's integer width (300 for an 8-bit field), Parse fails; it never
\* binds a wrapped-around or truncated value.
C37_Range ==
    Supplied1 /\ ~InWidth(dfield.kind, ParseInt(dinput).v) => BySupply.err # ""

\* C37 as the code has it: whatever strconv parses is bound, and the field holds
\* the value of its width that has the same low bits. Only a value strconv
\* refuses (a sign on an unsigned field) fails.
C37_LowBits ==
    Supplied1 =>
      IF dfield.kind \in Uints /\ ~ParseUint(dinput).ok THEN BySupply.err # ""
      ELSE /\ BySupply.err = ""
           /\ InWidth(dfield.kind, BySupply.val.i)
           /\ (BySupply.val.i - ParseInt(dinput).v) % 256 = 0
           /\ dfield.kind \in {"int", "uint"} => BySupply.val.i = ParseInt(dinput).v

\* 300 was supplied for an 8-bit field, signed or not, and 44 was bound
C37_Witness ==
    /\ Supplied1 /\ dfield.kind \in {"int8", "uint8"}
    /\ dinput = <<"3", "0", "0">>
    /\ BySupply = Bound(IntV(44))

\* ------------------------------------------------------------ C38
\* the pairs of allowed requests of one key, the earlier first
AllowedPairs ==
    { p \in (DOMAIN limlog) \X (DOMAIN limlog) :
        /\ p[1] < p[2] /\ limlog[p[1]].key = limlog[p[2]].key
        /\ limlog[p[1]].ok /\ limlog[p[2]].ok }
Apart == \A p \in AllowedPairs : limlog[p[2]].at - limlog[p[1]].at >= config.MinInterval

\* C38 (minimum interval): with MinInterval > 0, any two requests allowed for one
\* key are at least MinInterval apart, in every interleaving of requests with
\* runs of the cleaner and for every relation between MinInterval and Window.
C38_MinInterval == config.MinInterval > 0 => Apart

\* C38 as the code has it: the same when MinInterval is not longer than Window.
C38_MinIntervalWithinWindow ==
    config.MinInterval > 0 /\ config.MinInterval <= config.Window => Apart

\* a request of a key was allowed, a second one refused as too soon, the cleaner
\* removed the record of the key, and a third request was allowed MinInterval or
\* more after the first
C38_Witness ==
    /\ config.MinInterval > 0 /\ config.MinInterval <= config.Window
    /\ config.MaxRequests = 0
    /\ \E i, j, k \in DOMAIN limlog :
          /\ i < j /\ j < k
          /\ limlog[i].key = limlog[j].key /\ limlog[j].key = limlog[k].key
          /\ limlog[i].ok /\ ~limlog[j].ok /\ limlog[k].ok
          /\ limlog[k].before = NoRecord
          /\ limlog[k].at - limlog[i].at >= config.MinInterval

\* ------------------------------------------------------------ the generic cache
\* contrib/cache/lib.go: Cache[T] with a getter, used by two goroutines
MaxUses == 3
\* what Set is given, and what the getter returns
Values == { "v", "w" }
Source == "s"
Ttls == { 0, 1 }

\* NewCache(defaultTTL, getter)
NewCache(defaultTTL) == [defaultTTL |-> defaultTTL]

\* a goroutine that is in no method of Cache
Away == [pc |-> "out", id |-> 0, item |-> NoItem, checked |-> 0, value |-> NilData]

\* c.data[key] = &CacheItem{Value: value, ExpireTime: expires}
WithItem(c, key, value, expires) == (key :> [data |-> value, expires |-> expires]) @@ c

\* mutant of DeleteKey: the key stays
DeleteNone(c, key) == c
\* delete(c.data, key)
DeleteKey(c, key) == [k \in (DOMAIN c) \ {key} |-> c[k]]

\* the position of the next call or return in the order of events
Stamp == Len(cachelog) + Cardinality({ i \in DOMAIN cachelog : cachelog[i].ended # 0 }) + 1

Call(op, key) ==
    [op |-> op, key |-> key, val |-> NilData, expires |-> ZeroTime,
     begun |-> Stamp, ended |-> 0, ret |-> NilData, err |-> NilErr, found |-> FALSE,
     checked |-> ZeroTime, stored |-> FALSE]

InitLib ==
    /\ routes = <<NewRouter>>
    /\ setlog = <<>>
    /\ crashed = FALSE
    /\ req = NoReq
    /\ res = NoRes
    /\ IdleX
    /\ IdleP
    /\ IdleH
    /\ now = 1
    /\ \E defaultTTL \in 1..2 : config = NewCache(defaultTTL)
    /\ clients = <<>> /\ limlog = <<>>
    /\ cache = <<>>
    /\ inflight = [g \in Goroutines |-> Away]
    /\ cachelog = <<>>

\* Get, lines 47-49: the item of the key is read under the read lock
GetBegin(g) ==
    /\ inflight[g].pc = "out" /\ Len(cachelog) < MaxUses
    /\ \E key \in Keys :
         /\ cachelog' = Append(cachelog, Call("Get", key))
         /\ inflight' = [inflight EXCEPT ![g] =
                [Away EXCEPT !.pc = "check", !.id = Len(cachelog) + 1,
                             !.item = ItemOf(cache, key)]]
    /\ UNCHANGED <<varsRoute, varsX, varsP, varsH, now, config, clients, limlog, cache>>

\* Get, lines 51-56: the clock is read; an item that is there and not expired is
\* returned
GetCheck(g) ==
    /\ inflight[g].pc = "check"
    /\ LET h == inflight[g]
       IN IF Hit(h.item, now)
          THEN /\ inflight' = [inflight EXCEPT ![g] = Away]
               /\ cachelog' = [cachelog EXCEPT ![h.id] =
                      [@ EXCEPT !.ended = Stamp, !.ret = h.item.data, !.checked = now,
                                !.found = TRUE]]
          ELSE /\ inflight' = [inflight EXCEPT ![g] = [h EXCEPT !.pc = "load", !.checked = now]]
               /\ cachelog' = [cachelog EXCEPT ![h.id] = [@ EXCEPT !.checked = now]]
    /\ UNCHANGED <<varsRoute, varsX, varsP, varsH, now, config, clients, limlog, cache>>

\* Get, lines 59-63: the getter runs, outside any lock, and gives a value or an error
GetLoad(g) ==
    /\ inflight[g].pc = "load"
    /\ LET h == inflight[g]
       IN \E failed \in BOOLEAN :
            IF failed
            THEN /\ inflight' = [inflight EXCEPT ![g] = Away]
                 /\ cachelog' = [cachelog EXCEPT ![h.id] =
                        [@ EXCEPT !.ended = Stamp, !.err = "err"]]
            ELSE /\ inflight' = [inflight EXCEPT ![g] = [h EXCEPT !.pc = "store", !.value = Source]]
                 /\ UNCHANGED cachelog
    /\ UNCHANGED <<varsRoute, varsX, varsP, varsH, now, config, clients, limlog, cache>>

\* Get, lines 66-74: the value is stored under the lock, its expiry counted from the
\* clock value read at line 51
GetStore(g) ==
    /\ inflight[g].pc = "store"
    /\ LET h == inflight[g]
       IN /\ cache' = WithItem(cache, cachelog[h.id].key, h.value, h.checked + config.defaultTTL)
          /\ cachelog' = [cachelog EXCEPT ![h.id] =
                 [@ EXCEPT !.ended = Stamp, !.ret = h.value, !.stored = TRUE,
                           !.expires = h.checked + config.defaultTTL]]
    /\ inflight' = [inflight EXCEPT ![g] = Away]
    /\ UNCHANGED <<varsRoute, varsX, varsP, varsH, now, config, clients, limlog>>

\* Set, lines 78-94, all of it under the lock
CacheSet(g) ==
    /\ inflight[g].pc = "out" /\ Len(cachelog) < MaxUses
    /\ \E key \in Keys, value \in Values, ttl \in Ttls :
         LET expireTime == IF ttl = 0 THEN now + config.defaultTTL ELSE now + ttl
         IN /\ cache' = WithItem(cache, key, value, expireTime)
            /\ cachelog' = Append(cachelog,
                   [Call("Set", key) EXCEPT !.val = value, !.expires = expireTime,
                                               !.ended = Stamp + 1, !.stored = TRUE])
    /\ UNCHANGED <<varsRoute, varsX, varsP, varsH, now, config, clients, limlog, inflight>>

\* Delete, lines 97-102, all of it under the lock
CacheDelete(g) ==
    /\ inflight[g].pc = "out" /\ Len(cachelog) < MaxUses
    /\ \E key \in Keys :
         /\ cache' = DeleteKey(cache, key)
         /\ cachelog' = Append(cachelog, [Call("Delete", key) EXCEPT !.ended = Stamp + 1])
    /\ UNCHANGED <<varsRoute, varsX, varsP, varsH, now, config, clients, limlog, inflight>>

\* Exists, lines 106-108: the item of the key is read under the read lock
ExistsBegin(g) ==
    /\ inflight[g].pc = "out" /\ Len(cachelog) < MaxUses
    /\ \E key \in Keys :
         /\ cachelog' = Append(cachelog, Call("Exists", key))
         /\ inflight' = [inflight EXCEPT ![g] =
                [Away EXCEPT !.pc = "exists", !.id = Len(cachelog) + 1,
                             !.item = ItemOf(cache, key)]]
    /\ UNCHANGED <<varsRoute, varsX, varsP, varsH, now, config, clients, limlog, cache>>

\* Exists, lines 110-114
ExistsCheck(g) ==
    /\ inflight[g].pc = "exists"
    /\ LET h == inflight[g]
       IN cachelog' = [cachelog EXCEPT ![h.id] =
              [@ EXCEPT !.ended = Stamp, !.checked = now,
                        !.found = IF ~h.item.exists THEN FALSE ELSE Before(now, h.item.expires)]]
    /\ inflight' = [inflight EXCEPT ![g] = Away]
    /\ UNCHANGED <<varsRoute, varsX, varsP, varsH, now, config, clients, limlog, cache>>

\* Refresh, lines 119-123: the getter runs, outside any lock
RefreshBegin(g) ==
    /\ inflight[g].pc = "out" /\ Len(cachelog) < MaxUses
    /\ \E key \in Keys, failed \in BOOLEAN :
         IF failed
         THEN /\ cachelog' = Append(cachelog,
                     [Call("Refresh", key) EXCEPT !.ended = Stamp + 1, !.err = "err"])
              /\ UNCHANGED inflight
         ELSE /\ cachelog' = Append(cachelog, Call("Refresh", key))
              /\ inflight' = [inflight EXCEPT ![g] =
                     [Away EXCEPT !.pc = "refresh", !.id = Len(cachelog) + 1,
                                  !.value = Source]]
    /\ UNCHANGED <<varsRoute, varsX, varsP, varsH, now, config, clients, limlog, cache>>

\* Refresh, lines 125-133: the value is stored under the lock
RefreshStore(g) ==
    /\ inflight[g].pc = "refresh"
    /\ LET h == inflight[g]
       IN /\ cache' = WithItem(cache, cachelog[h.id].key, h.value, now + config.defaultTTL)
          /\ cachelog' = [cachelog EXCEPT ![h.id] =
                 [@ EXCEPT !.ended = Stamp, !.ret = h.value, !.stored = TRUE,
                           !.expires = now + config.defaultTTL]]
    /\ inflight' = [inflight EXCEPT ![g] = Away]
    /\ UNCHANGED <<varsRoute, varsX, varsP, varsH, now, config, clients, limlog>>

\* cleanup, lines 217-226: the background goroutine drops what has expired
cleanup ==
    /\ cache' = Cleanup(cache, now)
    /\ cache' # cache
    /\ UNCHANGED <<varsRoute, varsX, varsP, varsH, now, config, clients, limlog, inflight, cachelog>>

NextLib ==
    \/ \E g \in Goroutines :
          \/ GetBegin(g) \/ GetCheck(g) \/ GetLoad(g) \/ GetStore(g)
          \/ CacheSet(g) \/ CacheDelete(g)
          \/ ExistsBegin(g) \/ ExistsCheck(g)
          \/ RefreshBegin(g) \/ RefreshStore(g)
    \/ cleanup
    \/ Tick

SpecLib == InitLib /\ [][NextLib]_vars


\* the calls of the methods in ops on the key of call i, other than i
On(ops, i) ==
    { j \in DOMAIN cachelog : j # i /\ cachelog[j].op \in ops /\ cachelog[j].key = cachelog[i].key }
Finished(i) == cachelog[i].ended # 0
\* call j started after call i had returned
Afterwards(i, j) == Finished(i) /\ cachelog[j].begun > cachelog[i].ended
\* call j started after call i had started
Later(i, j) == cachelog[j].begun > cachelog[i].begun
\* call j had started when call i started and had not returned
Across(i, j) ==
    cachelog[j].begun < cachelog[i].begun /\ (Finished(j) => cachelog[j].ended > cachelog[i].begun)

\* a Get of the key of the Set s that started after s had returned and looked at
\* the clock before the value of s expired, with no Set, Refresh or Delete on the
\* key started after s
GetsAfterSet(s) ==
    { g \in On({"Get"}, s) :
        /\ cachelog[s].op = "Set" /\ Finished(g) /\ Afterwards(s, g)
        /\ cachelog[g].checked < cachelog[s].expires
        /\ \A o \in On({"Set", "Refresh", "Delete"}, s) : ~Later(s, o) }
\* an Exists of the key of the Delete d that started after d had returned, with
\* no Get, Set or Refresh on the key started after d had returned
ExistsAfterDelete(d) ==
    { e \in On({"Exists"}, d) :
        /\ cachelog[d].op = "Delete" /\ Finished(e) /\ Afterwards(d, e)
        /\ \A o \in On({"Get", "Set", "Refresh"}, d) : ~Afterwards(d, o) }
\* no Get or Refresh of the key of call i was in flight when i started
Quiet(i) == \A o \in On({"Get", "Refresh"}, i) : ~Across(i, o)

\* C39: once Set(k, v) has returned, a Get(k) that starts afterwards and before v
\* expires returns v unless a Set, Refresh or Delete on k started after that Set;
\* once Delete(k) has returned, Exists(k) is false until a Get, Set or Refresh on
\* k is started afterwards; a Get that was in flight when a Set or a Delete on
\* its key started and returned stores nothing.
C39_Visibility ==
    /\ \A s \in DOMAIN cachelog : \A g \in GetsAfterSet(s) :
         cachelog[g].ret = cachelog[s].val /\ cachelog[g].err = NilErr
    /\ \A d \in DOMAIN cachelog : \A e \in ExistsAfterDelete(d) : ~cachelog[e].found
    /\ \A g \in DOMAIN cachelog :
         (cachelog[g].op = "Get" /\ cachelog[g].stored) =>
            \A o \in On({"Set", "Delete"}, g) :
               ~(Later(g, o) /\ cachelog[o].ended < cachelog[g].ended)

\* C39, what holds: the same visibility of a Set and of a Delete on a key of
\* which no Get and no Refresh was in flight when the Set or the Delete started;
\* and a Get that found its key stored and not expired stores nothing.
C39_VisibilityWhenQuiet ==
    /\ \A s \in DOMAIN cachelog : \A g \in GetsAfterSet(s) :
         Quiet(s) => (cachelog[g].ret = cachelog[s].val /\ cachelog[g].err = NilErr)
    /\ \A d \in DOMAIN cachelog : \A e \in ExistsAfterDelete(d) :
         Quiet(d) => ~cachelog[e].found
    /\ \A g \in DOMAIN cachelog :
         (cachelog[g].op = "Get" /\ cachelog[g].found) => ~cachelog[g].stored

\* a Get has stored the getter's value and returned, a Set on the key has returned
\* after it, and a Get started after the Set has returned the value of the Set
C39_Witness ==
    /\ Len(cachelog) = 3
    /\ cachelog[1].op = "Get" /\ cachelog[1].stored /\ cachelog[1].ret = Source
    /\ cachelog[2].op = "Set" /\ Quiet(2) /\ cachelog[2].val = "v"
    /\ 3 \in GetsAfterSet(2) /\ cachelog[3].ret = "v" /\ cachelog[3].found


\* ------------------------------------------------------------ C40
\* the step is a call of Clear that returned
JustCleared ==
    /\ Len(setlog') = Len(setlog) + 1
    /\ setlog'[Len(setlog')].op = "Clear"
    /\ ~crashed'
\* what the call found before it took anything away: the routes with the node of
\* the prefix in them, and that node
Found(e) ==
    IF e.recvWild THEN GsResult(routes, e.recv, FALSE)
    ELSE get_subrouter(routes, e.recv, e.url)
\* what a GET of the path is matched to from the root r
MatchOf(rt, r, path) == match(rt, r, From(path, 1), "GET", <<>>)

\* Clear(prefix, m): only the chain for m at the node is removed, and every
\* request that was not matched to the node is matched as before
OneMethodCleared(e) ==
    LET g == Found(e)
        n == g.node
    IN /\ routes'[n].handlers = Without(g.rt[n].handlers, e.method)
       /\ routes'[n].handlersCache = Without(g.rt[n].handlersCache, e.method)
       /\ \A x \in DOMAIN routes' :
            routes'[x] = [g.rt[x] EXCEPT !.handlers = routes'[x].handlers,
                                         !.handlersCache = routes'[x].handlersCache]
       /\ \A x \in (DOMAIN routes') \ {n} :
            /\ routes'[x].handlers = g.rt[x].handlers
            /\ routes'[x].handlersCache = g.rt[x].handlersCache
       /\ \A r \in Roots, path \in Paths :
            MatchOf(routes, r, path).node # n => MatchOf(routes', r, path) = MatchOf(routes, r, path)

\* C40: after Clear(prefix, "*") no request is matched through the cleared node:
\* its handlers, its middleware and all of its children (literal, named and
\* wildcard) are gone; after Clear(prefix, m) with a single method only the chain
\* for m at that node is removed and every other route matches as before.
C40_ClearSubtree ==
    [][JustCleared =>
         LET e == setlog'[Len(setlog')]
             n == Found(e).node
         IN IF e.method = "*"
            THEN /\ routes'[n].handlers = EmptyMap
                 /\ routes'[n].funcBefore = <<>> /\ routes'[n].funcAfter = <<>>
                 /\ Children(routes', n) = {}
                 /\ \A r \in Roots, path \in Paths :
                      MatchOf(routes', r, path).node \notin Subtree(routes', n)
            ELSE OneMethodCleared(e)]_vars

\* C40, what holds: after Clear(prefix, "*") the handlers, the cached chains, the
\* middleware and the literal children of the node are gone and no request is
\* matched to the node itself, while its named child and its wildcard child are
\* the ones it had; after Clear(prefix, m) only the chain for m at that node is
\* removed and every request not matched to the node is matched as before.
C40_ClearKeepsNamed ==
    [][JustCleared =>
         LET e == setlog'[Len(setlog')]
             g == Found(e)
             n == g.node
         IN IF e.method = "*"
            THEN /\ routes'[n].handlers = EmptyMap /\ routes'[n].handlersCache = EmptyMap
                 /\ routes'[n].funcBefore = <<>> /\ routes'[n].funcAfter = <<>>
                 /\ routes'[n].subRouters = EmptyMap
                 /\ routes'[n].colon = g.rt[n].colon
                 /\ routes'[n].wildcard = g.rt[n].wildcard
                 /\ \A r \in Roots, path \in Paths : MatchOf(routes', r, path).node # n
            ELSE OneMethodCleared(e)]_vars

\* /u was registered on router 1 with handlers, middleware was added to its node
\* and then Clear("/u", "*") was called on router 1: the node has neither
C40_Witness ==
    /\ Len(setlog) = 3 /\ ~crashed
    /\ setlog[1].op = "Set" /\ setlog[1].recv = 1 /\ setlog[1].url = Url(<<user>>)
    /\ setlog[2].op = "UseBefore" /\ setlog[2].recv = setlog[1].node
    /\ setlog[3].op = "Clear" /\ setlog[3].recv = 1 /\ setlog[3].url = Url(<<user>>)
    /\ setlog[3].method = "*"
    /\ routes[setlog[1].node].handlers = EmptyMap
    /\ routes[setlog[1].node].funcBefore = <<>>

====
